---------------------------- MODULE Spec2Model ----------------------------
(***************************************************************************)
(* Model of the meshcore-coverage-map server: the prefix disambiguation    *)
(* engine (utils/prefix-disambiguation.js, utils/path-utils.js,            *)
(* utils/geo-utils.js) and the GET /get-nodes sample aggregation           *)
(* (routes/nodes.js).                                                      *)
(*                                                                         *)
(* Conventions                                                             *)
(*  - A JavaScript string is a sequence of one-character strings, so that  *)
(*    length, slice and toUpperCase are computed and not assumed.          *)
(*  - A geohash is a sequence of base-32 digit values (0..31).             *)
(*  - A latitude/longitude is an integer number of half cells of an        *)
(*    8-character geohash, counted from -90 / -180 degrees: one latitude   *)
(*    unit is 180/2^21 degrees, one longitude unit 360/2^21 degrees.       *)
(*  - A score (a float in the code) is a fixed-point integer, Scale = 1.0. *)
(*  - Times are integers: milliseconds in the database rows, seconds in    *)
(*    the disambiguation engine, as in the code.                           *)
(***************************************************************************)
EXTENDS Integers, Sequences, FiniteSets, TLC

VARIABLES
    now,                \* Math.floor(Date.now() / 1000) of the request
    repeaterRows,       \* rows of the repeaters table, as read by the request
    sampleRows,         \* rows of the samples table, as read by the request
    repeaters,          \* repeaters.keys of repeatersModel.getAll()
    samples,            \* samples.keys of samplesModel.getAll()
    pc,                 \* position of the GET /get-nodes handler
    repeatersByPrefix,  \* Map prefix -> list of {prefix, lat, lon, time}
    prefixToCandidates, \* Map prefix -> list of candidate objects
    lookup,             \* Map prefix -> disambiguation result (prefixLookup)
    resolvedPaths,      \* disambiguatePath result of each sample, in order
    sampleAggregates,   \* Map 6-char geohash -> aggregate
    aggregatedSamples,  \* the "samples" array of the response
    call,               \* a direct call of a function of the modules: its
                        \* name, arguments and result
    db,                 \* the tables of the database the server shares
    requests,           \* the GET /get-nodes requests in flight: what each
                        \* has read, its prefixLookup and its response
    writers             \* the POST handlers: how many have run, and the
                        \* repeater upserts POST /put-sample still awaits

vars == <<now, repeaterRows, sampleRows, repeaters, samples, pc,
          repeatersByPrefix, prefixToCandidates, lookup, resolvedPaths,
          sampleAggregates, aggregatedSamples, call, db, requests, writers>>

-----------------------------------------------------------------------------
(* Generic helpers                                                         *)

Min(a, b) == IF a < b THEN a ELSE b
Max(a, b) == IF a > b THEN a ELSE b
Abs(a) == IF a < 0 THEN 0 - a ELSE a

\* Fixed-point unit of every score: Scale stands for 1.0.
Scale == 100 * 100

\* JavaScript null / undefined / NaN of a numeric field.
Null == 0 - 1000000

\* The empty Map.
EmptyMap == [k \in {} |-> 0]

\* Map.set(key, value)
MapSet(m, k, v) == [x \in (DOMAIN m) \cup {k} |-> IF x = k THEN v ELSE m[x]]

\* No function has been called directly.
NoCall == [fn |-> "none"]

\* Tables without rows, and no POST handler that has run.
EmptyDatabase == [repeaters |-> {}, samples |-> {}, coverage |-> <<>>]
NoWriters == [started |-> 0, awaiting |-> {}]

-----------------------------------------------------------------------------
(* Strings                                                                 *)

LowerChars == <<"a", "b", "c", "d", "e", "f", "g", "h", "i", "j", "k", "l", "m",
                "n", "o", "p", "q", "r", "s", "t", "u", "v", "w", "x", "y", "z">>
UpperChars == <<"A", "B", "C", "D", "E", "F", "G", "H", "I", "J", "K", "L", "M",
                "N", "O", "P", "Q", "R", "S", "T", "U", "V", "W", "X", "Y", "Z">>

\* toUpperCase of one character
UpperChar(c) ==
    IF \E k \in 1..Len(LowerChars) : LowerChars[k] = c
    THEN UpperChars[CHOOSE k \in 1..Len(LowerChars) : LowerChars[k] = c]
    ELSE c

\* String.prototype.toUpperCase
ToUpperCase(s) == [k \in 1..Len(s) |-> UpperChar(s[k])]

\* String.prototype.slice(from, to) with 0 <= from <= to (0-based, end exclusive)
Slice(s, from, to) == SubSeq(s, from + 1, Min(to, Len(s)))

\* String.prototype.startsWith
StartsWith(s, p) == Len(s) >= Len(p) /\ SubSeq(s, 1, Len(p)) = p

-----------------------------------------------------------------------------
(* utils/path-utils.js                                                     *)

\* parsePath's null result
NullParsed == [null |-> TRUE]

\* getHashPrefix(hash); the empty string stands for null (both are falsy and
\* the caller only passes a truthy hash).
getHashPrefix(hash) ==
    IF hash = <<>> THEN <<>>
    ELSE IF StartsWith(hash, <<"0", "x">>) \/ StartsWith(hash, <<"0", "X">>)
         THEN ToUpperCase(Slice(hash, 2, 4))
         ELSE ToUpperCase(Slice(hash, 0, 2))

\* The list without its trailing elements equal to x.
RECURSIVE StripTrailing(_, _)
StripTrailing(list, x) ==
    IF list # <<>> /\ list[Len(list)] = x
    THEN StripTrailing(SubSeq(list, 1, Len(list) - 1), x)
    ELSE list

\* A parsePath that strips the local prefix as often as the path ends with it.
parsePathStrippingRepeated(path, localHash) ==
    IF Len(path) = 0 THEN NullParsed
    ELSE LET original == [k \in 1..Len(path) |-> ToUpperCase(path[k])]
             hasLocal == localHash # <<>>
             localPrefix == getHashPrefix(localHash)
             hadLocal == hasLocal /\ original[Len(original)] = localPrefix
             effective == IF hadLocal THEN StripTrailing(original, localPrefix)
                          ELSE original
         IN [effective |-> effective,
             original |-> original,
             hadLocal |-> hadLocal,
             effectiveLength |-> Len(effective)]

\* parsePath(path, localHash) for an array path; localHash = <<>> stands for an
\* absent (falsy) hash.
parsePath(path, localHash) ==
    IF Len(path) = 0 THEN NullParsed
    ELSE LET original == [k \in 1..Len(path) |-> ToUpperCase(path[k])]
             hasLocal == localHash # <<>>
             localPrefix == getHashPrefix(localHash)
             lastElement == original[Len(original)]
             hadLocal == hasLocal /\ lastElement = localPrefix
             effective == IF hadLocal
                          THEN SubSeq(original, 1, Len(original) - 1)
                          ELSE original
         IN [effective |-> effective,
             original |-> original,
             hadLocal |-> hadLocal,
             effectiveLength |-> Len(effective)]

\* parsePath(path, localHash) for any JavaScript value: null and a value that
\* is not an array give null before the array is looked at.
parsePathOfValue(value, localHash) ==
    IF value.type # "array" THEN NullParsed ELSE parsePath(value.items, localHash)

\* A getPositionFromIndex that counts from the start of the path.
getPositionFromStart(index, effectiveLength) == index + 1

\* getPositionFromIndex(index, effectiveLength), index 0-based
getPositionFromIndex(index, effectiveLength) == effectiveLength - index

-----------------------------------------------------------------------------
(* utils/shared.js: geohash keys                                           *)

\* Bit k (1-based, most significant first) of the 5-bit digits of a geohash.
HashBit(hash, k) == (hash[((k - 1) \div 5) + 1] \div (2 ^ (4 - ((k - 1) % 5)))) % 2

\* The integer spelled by the bits k, k+2, k+4, ... of the geohash.
RECURSIVE DeinterleaveFrom(_, _, _)
DeinterleaveFrom(hash, k, acc) ==
    IF k > 5 * Len(hash) THEN acc
    ELSE DeinterleaveFrom(hash, k + 2, 2 * acc + HashBit(hash, k))

\* Number of bits k, k+2, ... of the geohash.
BitCount(hash, k) == IF 5 * Len(hash) < k THEN 0 ELSE ((5 * Len(hash) - k) \div 2) + 1

\* Centre of the cell with the given index among 2^bits cells, in units of
\* 1/2^21 of the full range (ngeohash decode: (min + max) / 2).
CellCentre(idx, bits) == idx * (2 ^ (21 - bits)) + (2 ^ (20 - bits))

\* A sample name that is no string (null, undefined): geo.decode throws on it.
UndecodableHash == <<0 - 1>>

\* posFromHash(hash) throws.
DecodeThrows(hash) == hash = UndecodableHash

\* posFromHash(hash): [lat, lon] of the centre of the geohash cell.
\* Longitude takes the odd bits (1st, 3rd, ...), latitude the even ones.
posFromHash(hash) ==
    <<CellCentre(DeinterleaveFrom(hash, 2, 0), BitCount(hash, 2)),
      CellCentre(DeinterleaveFrom(hash, 1, 0), BitCount(hash, 1))>>

-----------------------------------------------------------------------------
(* utils/geo-utils.js                                                      *)

\* Integer square root (floor), by bisection on lo..hi.
RECURSIVE SqrtBetween(_, _, _)
SqrtBetween(x, lo, hi) ==
    IF lo >= hi THEN lo
    ELSE LET mid == (lo + hi + 1) \div 2
         IN IF mid * mid <= x THEN SqrtBetween(x, mid, hi)
                              ELSE SqrtBetween(x, lo, mid - 1)

\* Points more than 2900 latitude units or 1800 longitude units apart (27 km on
\* one axis) are reported at this distance: a lower bound of their distance,
\* above every proximity band, that keeps the squares within 32 bits.
AxisCapMetres == 27 * 1000

\* Metres per latitude unit (180/2^21 degrees = 9.544 m) and per longitude unit
\* at the reference latitude of the default CENTER_POS, 37.3 degrees
\* (360/2^21 degrees * cos(37.3) = 15.18 m), as fractions.
LatMetres(units) == (units * 955) \div 100
LonMetres(units) == (units * 152) \div 10

\* calculateDistance(lat1, lon1, lat2, lon2) in metres: the haversine distance,
\* computed with the equirectangular approximation at the reference latitude.
calculateDistance(lat1, lon1, lat2, lon2) ==
    LET dLat == Abs(lat2 - lat1)
        dLon == Abs(lon2 - lon1)
    IN IF dLat > 2900 \/ dLon > 1800
       THEN AxisCapMetres
       ELSE LET dy == LatMetres(dLat)
                dx == LonMetres(dLon)
            IN SqrtBetween(dx * dx + dy * dy, 0, 40 * 1000)

-----------------------------------------------------------------------------
(* utils/prefix-disambiguation.js: constants and helpers                   *)

\* SCORE_WEIGHTS, in hundredths
WeightPosition == 15
WeightCooccurrence == 15
WeightGeographic == 40
WeightRecency == 30

MAX_POSITIONS == 5
MAX_CANDIDATE_AGE_HOURS == 336
RECENCY_DECAY_HOURS == 12

SecondsPerHour == 60 * 60

\* Math.exp(-q) for whole q, in fixed point (0 from q = 10 on).
ExpNegWhole == <<10000, 3679, 1353, 498, 183, 67, 25, 9, 3, 1>>
\* Math.exp(-r / 12) for r = 0..11, in fixed point.
ExpNegTwelfths == <<10000, 9200, 8465, 7788, 7165, 6592, 6065, 5580, 5134, 4724, 4346, 3998>>

\* Math.exp(-hoursAgo / 12) is 0 from this many hours on: a double has no
\* positive value below exp(-745.14).
UnderflowHours == 8942

\* Math.exp(-hoursAgo / RECENCY_DECAY_HOURS) for hoursAgo = seconds / 3600 >= 0,
\* evaluated at the whole hours: exp(-q) * exp(-r/12) with hours = 12 q + r.
\* A positive value below the fixed-point unit is held as one unit.
ExpDecay(seconds) ==
    LET hours == seconds \div SecondsPerHour
        q == hours \div RECENCY_DECAY_HOURS
        r == hours % RECENCY_DECAY_HOURS
    IN IF hours >= UnderflowHours THEN 0
       ELSE IF q >= Len(ExpNegWhole) THEN 1
       ELSE Max(1, (ExpNegWhole[q + 1] * ExpNegTwelfths[r + 1]) \div Scale)

\* A calculateRecencyScore that scores an unknown last-seen time 0.
calculateRecencyScoreUnknownZero(lastSeenTimestamp, nowTimestamp) ==
    IF lastSeenTimestamp <= 0 THEN 0
    ELSE IF nowTimestamp - lastSeenTimestamp < 0 THEN Scale
    ELSE ExpDecay(nowTimestamp - lastSeenTimestamp)

\* A calculateRecencyScore with the subtraction turned around: every past
\* timestamp counts as a future one.
calculateRecencyScoreSignFlipped(lastSeenTimestamp, nowTimestamp) ==
    IF lastSeenTimestamp <= 0 THEN Scale \div 10
    ELSE IF lastSeenTimestamp - nowTimestamp < 0 THEN Scale
    ELSE ExpDecay(lastSeenTimestamp - nowTimestamp)

\* calculateRecencyScore(lastSeenTimestamp, nowTimestamp)
calculateRecencyScore(lastSeenTimestamp, nowTimestamp) ==
    IF lastSeenTimestamp <= 0 THEN Scale \div 10
    ELSE IF nowTimestamp - lastSeenTimestamp < 0 THEN Scale
    ELSE ExpDecay(nowTimestamp - lastSeenTimestamp)

\* An isCandidateTooOld without the unknown-age case.
isCandidateTooOldWithoutUnknown(lastSeenTimestamp, nowTimestamp) ==
    nowTimestamp - lastSeenTimestamp > MAX_CANDIDATE_AGE_HOURS * SecondsPerHour

\* isCandidateTooOld(lastSeenTimestamp), with now = Math.floor(Date.now() / 1000)
isCandidateTooOld(lastSeenTimestamp, nowTimestamp) ==
    IF lastSeenTimestamp <= 0 THEN FALSE
    ELSE nowTimestamp - lastSeenTimestamp > MAX_CANDIDATE_AGE_HOURS * SecondsPerHour

-----------------------------------------------------------------------------
(* JavaScript values                                                       *)

\* null / undefined where a string is expected (no string has this shape).
JsNull == <<"null">>

\* Truthiness of a string-or-null value and of a number-or-NaN value.
TruthyString(s) == s # JsNull /\ s # <<>>

\* 0 degrees of latitude or longitude, in coordinate units.
ZeroDegrees == 2 ^ 20
TruthyCoordinate(x) == x # Null /\ x # ZeroDegrees

-----------------------------------------------------------------------------
(* models/repeaters.js and models/samples.js: getAll                       *)

\* repeatersModel.getAll(): one key per row, in the order of the query.
RepeaterKey(row) ==
    [metadata |-> [time |-> row.time, id |-> row.id, lat |-> row.lat, lon |-> row.lon]]

RepeatersGetAll(rows) == [k \in 1..Len(rows) |-> RepeaterKey(rows[k])]

\* samplesModel.getAll(): observed defaults to "the path is not empty".
SampleKey(row) ==
    [name |-> row.geohash,
     metadata |-> [time |-> row.time,
                   path |-> row.path,
                   observed |-> IF row.observed # "null" THEN row.observed
                                ELSE IF Len(row.path) > 0 THEN "true" ELSE "false",
                   snr |-> row.snr,
                   rssi |-> row.rssi]]

SamplesGetAll(rows) == [k \in 1..Len(rows) |-> SampleKey(rows[k])]

-----------------------------------------------------------------------------
(* buildPrefixLookup, step 1: prefix -> candidates from the repeaters      *)

\* Math.floor(repeater.metadata.time / 1000), or 0 when the time is falsy.
LastSeenOf(repeater) ==
    IF repeater.metadata.time = Null \/ repeater.metadata.time = 0 THEN 0
    ELSE repeater.metadata.time \div 1000

\* (repeater.metadata?.id || '').toUpperCase()
PrefixOf(repeater) ==
    IF TruthyString(repeater.metadata.id) THEN ToUpperCase(repeater.metadata.id) ELSE <<>>

\* A GroupRepeater that skips only a missing prefix, whatever the length.
GroupRepeaterAnyLength(byPrefix, repeater, nowTs) ==
    LET prefix == PrefixOf(repeater)
        lastSeenTimestamp == LastSeenOf(repeater)
    IN IF prefix = <<>> THEN byPrefix
       ELSE IF isCandidateTooOld(lastSeenTimestamp, nowTs) THEN byPrefix
       ELSE LET list == IF prefix \in DOMAIN byPrefix THEN byPrefix[prefix] ELSE <<>>
            IN MapSet(byPrefix, prefix,
                      Append(list, [prefix |-> prefix,
                                    lat |-> repeater.metadata.lat,
                                    lon |-> repeater.metadata.lon,
                                    time |-> lastSeenTimestamp]))

\* One iteration of "for (const repeater of repeaters)".
GroupRepeater(byPrefix, repeater, nowTs) ==
    LET prefix == PrefixOf(repeater)
        lastSeenTimestamp == LastSeenOf(repeater)
    IN IF prefix = <<>> \/ Len(prefix) # 2 THEN byPrefix
       ELSE IF isCandidateTooOld(lastSeenTimestamp, nowTs) THEN byPrefix
       ELSE LET list == IF prefix \in DOMAIN byPrefix THEN byPrefix[prefix] ELSE <<>>
            IN MapSet(byPrefix, prefix,
                      Append(list, [prefix |-> prefix,
                                    lat |-> repeater.metadata.lat,
                                    lon |-> repeater.metadata.lon,
                                    time |-> lastSeenTimestamp]))

RECURSIVE GroupRepeatersFrom(_, _, _, _)
GroupRepeatersFrom(byPrefix, reps, k, nowTs) ==
    IF k > Len(reps) THEN byPrefix
    ELSE GroupRepeatersFrom(GroupRepeater(byPrefix, reps[k], nowTs), reps, k + 1, nowTs)

\* A candidate whose hash is the first character of its prefix.
NewCandidateShortHash(prefix, repeater, nowTs) ==
    [hash |-> SubSeq(prefix, 1, 1),
     prefix |-> prefix,
     positionCounts |-> [k \in 1..MAX_POSITIONS |-> 0],
     totalAppearances |-> 0,
     typicalPosition |-> 0,
     positionConsistency |-> 0,
     adjacentPrefixCounts |-> EmptyMap,
     totalAdjacentObservations |-> 0,
     latitude |-> repeater.lat,
     longitude |-> repeater.lon,
     srcGeoEvidenceScore |-> 0,
     srcGeoEvidenceCount |-> 0,
     lastSeenTimestamp |-> repeater.time,
     recencyScore |-> calculateRecencyScore(repeater.time, nowTs),
     positionScore |-> 0,
     cooccurrenceScore |-> 0,
     geographicScore |-> Scale \div 5,
     combinedScore |-> 0]

\* The candidate object created for one grouped repeater.
NewCandidate(prefix, repeater, nowTs) ==
    [hash |-> prefix,
     prefix |-> prefix,
     positionCounts |-> [k \in 1..MAX_POSITIONS |-> 0],
     totalAppearances |-> 0,
     typicalPosition |-> 0,
     positionConsistency |-> 0,
     adjacentPrefixCounts |-> EmptyMap,
     totalAdjacentObservations |-> 0,
     latitude |-> repeater.lat,
     longitude |-> repeater.lon,
     srcGeoEvidenceScore |-> 0,
     srcGeoEvidenceCount |-> 0,
     lastSeenTimestamp |-> repeater.time,
     recencyScore |-> calculateRecencyScore(repeater.time, nowTs),
     positionScore |-> 0,
     cooccurrenceScore |-> 0,
     geographicScore |-> Scale \div 5,
     combinedScore |-> 0]

\* "for (const [prefix, repeaterList] of repeatersByPrefix)"
CandidatesOf(byPrefix, nowTs) ==
    [prefix \in DOMAIN byPrefix |->
        [k \in 1..Len(byPrefix[prefix]) |-> NewCandidate(prefix, byPrefix[prefix][k], nowTs)]]

-----------------------------------------------------------------------------
(* buildPrefixLookup, step 2: position and co-occurrence data              *)

\* A GeoEvidence whose bands include their upper limit.
GeoEvidenceInclusive(distToSrc) ==
    IF distToSrc <= 500 THEN Scale
    ELSE IF distToSrc <= 2000 THEN (8 * Scale) \div 10
    ELSE IF distToSrc <= 5000 THEN (5 * Scale) \div 10
    ELSE IF distToSrc <= 10000 THEN (3 * Scale) \div 10
    ELSE Scale \div 10

\* The evidence of one position-1 observation at the given distance.
GeoEvidence(distToSrc) ==
    IF distToSrc < 500 THEN Scale
    ELSE IF distToSrc < 2000 THEN (8 * Scale) \div 10
    ELSE IF distToSrc < 5000 THEN (5 * Scale) \div 10
    ELSE IF distToSrc < 10000 THEN (3 * Scale) \div 10
    ELSE Scale \div 10

\* A CountAdjacent that notes the neighbour without counting its occurrences.
CountAdjacentOnce(counts, p) == MapSet(counts, p, 1)

\* adjacentPrefixCounts.set(p, (adjacentPrefixCounts.get(p) || 0) + 1)
CountAdjacent(counts, p) ==
    MapSet(counts, p, (IF p \in DOMAIN counts THEN counts[p] ELSE 0) + 1)

\* An UpdateCandidate that takes geographic evidence at every position.
UpdateCandidateAtAnyPosition(candidate, effectivePath, i, nCandidates, src) ==
    LET position == getPositionFromIndex(i, Len(effectivePath))
        positionIndex == Min(position - 1, MAX_POSITIONS - 1)
        counted == [candidate EXCEPT !.positionCounts[positionIndex + 1] = @ + 1,
                                     !.totalAppearances = @ + 1]
        hasGeo == nCandidates > 1
                  /\ TruthyCoordinate(candidate.latitude)
                  /\ TruthyCoordinate(candidate.longitude)
        located == IF hasGeo
                   THEN [counted EXCEPT
                           !.srcGeoEvidenceScore = @ + GeoEvidence(
                               calculateDistance(src[1], src[2],
                                                 candidate.latitude, candidate.longitude)),
                           !.srcGeoEvidenceCount = @ + 1]
                   ELSE counted
        withPrev == IF i > 0
                    THEN [located EXCEPT
                            !.adjacentPrefixCounts = CountAdjacent(@, effectivePath[i]),
                            !.totalAdjacentObservations = @ + 1]
                    ELSE located
        withNext == IF i < Len(effectivePath) - 1
                    THEN [withPrev EXCEPT
                            !.adjacentPrefixCounts = CountAdjacent(@, effectivePath[i + 2]),
                            !.totalAdjacentObservations = @ + 1]
                    ELSE withPrev
    IN withNext

\* The body of "for (const candidate of candidates)" for the element at the
\* 0-based index i of the effective path; nCandidates is candidates.length.
UpdateCandidate(candidate, effectivePath, i, nCandidates, src) ==
    LET position == getPositionFromIndex(i, Len(effectivePath))
        positionIndex == Min(position - 1, MAX_POSITIONS - 1)
        counted == [candidate EXCEPT !.positionCounts[positionIndex + 1] = @ + 1,
                                     !.totalAppearances = @ + 1]
        hasGeo == position = 1 /\ nCandidates > 1
                  /\ TruthyCoordinate(candidate.latitude)
                  /\ TruthyCoordinate(candidate.longitude)
        located == IF hasGeo
                   THEN [counted EXCEPT
                           !.srcGeoEvidenceScore = @ + GeoEvidence(
                               calculateDistance(src[1], src[2],
                                                 candidate.latitude, candidate.longitude)),
                           !.srcGeoEvidenceCount = @ + 1]
                   ELSE counted
        withPrev == IF i > 0
                    THEN [located EXCEPT
                            !.adjacentPrefixCounts = CountAdjacent(@, effectivePath[i]),
                            !.totalAdjacentObservations = @ + 1]
                    ELSE located
        withNext == IF i < Len(effectivePath) - 1
                    THEN [withPrev EXCEPT
                            !.adjacentPrefixCounts = CountAdjacent(@, effectivePath[i + 2]),
                            !.totalAdjacentObservations = @ + 1]
                    ELSE withPrev
    IN withNext

\* An AnalyzeElement that updates the first candidate of the prefix only.
AnalyzeElementFirstCandidateOnly(p2c, effectivePath, i, src) ==
    LET prefix == effectivePath[i + 1]
    IN IF prefix \notin DOMAIN p2c THEN p2c
       ELSE [p2c EXCEPT ![prefix] =
                [k \in 1..Len(@) |->
                    IF k = 1 THEN UpdateCandidate(@[k], effectivePath, i, Len(@), src)
                    ELSE @[k]]]

\* "for (const candidate of candidates)" from the k-th candidate on.
\* A loop over the candidates that updates the first candidate only.
UpdateCandidatesFirstOnly(candidates, k, effectivePath, i, src) ==
    [n \in 1..Len(candidates) |->
        IF n = 1 THEN UpdateCandidate(candidates[n], effectivePath, i, Len(candidates), src)
        ELSE candidates[n]]

RECURSIVE UpdateCandidatesFrom(_, _, _, _, _)
UpdateCandidatesFrom(candidates, k, effectivePath, i, src) ==
    IF k > Len(candidates) THEN <<>>
    ELSE <<UpdateCandidate(candidates[k], effectivePath, i, Len(candidates), src)>>
         \o UpdateCandidatesFrom(candidates, k + 1, effectivePath, i, src)

\* One iteration of "for (let i = 0; i < effectivePath.length; i++)".
AnalyzeElement(p2c, effectivePath, i, src) ==
    LET prefix == effectivePath[i + 1]
    IN IF prefix \notin DOMAIN p2c THEN p2c
       ELSE [p2c EXCEPT ![prefix] = UpdateCandidatesFrom(@, 1, effectivePath, i, src)]

RECURSIVE AnalyzeElementsFrom(_, _, _, _)
AnalyzeElementsFrom(p2c, effectivePath, i, src) ==
    IF i >= Len(effectivePath) THEN p2c
    ELSE AnalyzeElementsFrom(AnalyzeElement(p2c, effectivePath, i, src),
                             effectivePath, i + 1, src)

\* An AnalyzeSample whose try/catch guards the source location only: the
\* elements of a sample that fails to decode are counted without it.
AnalyzeSampleCatchingLate(p2c, sample, localHash) ==
    LET path == sample.metadata.path
        parsed == parsePath(path, localHash)
    IN IF Len(path) = 0 THEN p2c
       ELSE IF parsed = NullParsed THEN p2c
       ELSE IF parsed.effectiveLength = 0 THEN p2c
       ELSE IF DecodeThrows(sample.name)
            THEN AnalyzeElementsFrom(p2c, parsed.effective, 0, <<Null, Null>>)
       ELSE AnalyzeElementsFrom(p2c, parsed.effective, 0, posFromHash(sample.name))

\* One iteration of "for (const sample of samples)"; a sample whose name
\* posFromHash throws on is left by the catch block's continue.
AnalyzeSample(p2c, sample, localHash) ==
    LET path == sample.metadata.path
        parsed == parsePath(path, localHash)
    IN IF Len(path) = 0 THEN p2c
       ELSE IF parsed = NullParsed THEN p2c
       ELSE IF parsed.effectiveLength = 0 THEN p2c
       ELSE IF DecodeThrows(sample.name) THEN p2c
       ELSE AnalyzeElementsFrom(p2c, parsed.effective, 0, posFromHash(sample.name))

\* "for (const sample of samples)" from the k-th sample on. No iteration adds
\* a prefix to the Map, so that an empty Map is the result whatever samples
\* are left.
RECURSIVE AnalyzeSamplesFrom(_, _, _, _)
AnalyzeSamplesFrom(p2c, smps, k, localHash) ==
    IF k > Len(smps) THEN p2c
    ELSE LET next == AnalyzeSample(p2c, smps[k], localHash)
         IN IF DOMAIN next = {} THEN next
            ELSE AnalyzeSamplesFrom(next, smps, k + 1, localHash)

-----------------------------------------------------------------------------
(* buildPrefixLookup, step 3: scores                                       *)

\* All candidates of all prefixes.
AllCandidates(p2c) ==
    UNION {{p2c[prefix][k] : k \in 1..Len(p2c[prefix])} : prefix \in DOMAIN p2c}

\* "let max = 1; for (...) max = Math.max(max, value)"
MaxWithFloorOne(values) == CHOOSE m \in values \cup {1} : \A v \in values \cup {1} : m >= v

\* The bucket scan: the highest count, and the first (1-indexed) bucket that has it.
MaxCount(positionCounts) ==
    CHOOSE m \in {positionCounts[k] : k \in 1..MAX_POSITIONS} :
        \A k \in 1..MAX_POSITIONS : m >= positionCounts[k]

TypicalPosition(positionCounts) ==
    CHOOSE k \in 1..MAX_POSITIONS :
        /\ positionCounts[k] = MaxCount(positionCounts)
        /\ \A j \in 1..(k - 1) : positionCounts[j] < MaxCount(positionCounts)

\* A boost that grows with every observation: the evidence is summed, not
\* averaged, and not weighted by the number of observations.
SrcGeoBoostPerObservation(candidate) == (candidate.srcGeoEvidenceScore * 3) \div 10

\* avgEvidence * observationWeight * 0.3, or 0 without evidence
SrcGeoBoost(candidate) ==
    IF candidate.srcGeoEvidenceCount > 0
    THEN LET avgEvidence == candidate.srcGeoEvidenceScore \div candidate.srcGeoEvidenceCount
             observationWeight == Min((candidate.srcGeoEvidenceCount * Scale) \div 50, Scale)
         IN (((avgEvidence * observationWeight) \div Scale) * 3) \div 10
    ELSE 0

\* The body of the scoring loop for one candidate.
ScoreCandidate(candidate, maxAppearances, maxAdjacentObs) ==
    LET appeared == candidate.totalAppearances > 0
        typicalPosition == IF appeared THEN TypicalPosition(candidate.positionCounts)
                           ELSE candidate.typicalPosition
        positionConsistency ==
            IF appeared
            THEN (MaxCount(candidate.positionCounts) * Scale) \div candidate.totalAppearances
            ELSE candidate.positionConsistency
        frequencyScore == (candidate.totalAppearances * Scale) \div maxAppearances
        positionScore == IF appeared
                         THEN (positionConsistency * 6 + frequencyScore * 4) \div 10
                         ELSE candidate.positionScore
        cooccurrenceScore ==
            IF candidate.totalAdjacentObservations > 0
            THEN (candidate.totalAdjacentObservations * Scale) \div maxAdjacentObs
            ELSE candidate.cooccurrenceScore
        weighted == (positionScore * WeightPosition
                     + cooccurrenceScore * WeightCooccurrence
                     + candidate.geographicScore * WeightGeographic
                     + candidate.recencyScore * WeightRecency) \div 100
    IN [candidate EXCEPT !.typicalPosition = typicalPosition,
                         !.positionConsistency = positionConsistency,
                         !.positionScore = positionScore,
                         !.cooccurrenceScore = cooccurrenceScore,
                         !.combinedScore = weighted + SrcGeoBoost(candidate)]

\* Step 3 as a whole: the two maxima, then every candidate's scores.
ScoreAll(p2c) ==
    LET maxAppearances == MaxWithFloorOne({c.totalAppearances : c \in AllCandidates(p2c)})
        maxAdjacentObs ==
            MaxWithFloorOne({c.totalAdjacentObservations : c \in AllCandidates(p2c)})
    IN [prefix \in DOMAIN p2c |->
          [k \in 1..Len(p2c[prefix]) |->
              ScoreCandidate(p2c[prefix][k], maxAppearances, maxAdjacentObs)]]

-----------------------------------------------------------------------------
(* buildPrefixLookup, step 4: disambiguation results                       *)

\* The comparator with its operands swapped: an ascending sort.
CompareCandidatesAscending(a, b) == a.combinedScore - b.combinedScore

\* The comparator of candidates.sort: negative when a sorts before b.
CompareCandidates(a, b) == b.combinedScore - a.combinedScore

\* An insertion in front of the elements c ties with: a sort that reverses
\* the order of equal scores.
RECURSIVE InsertSortedBeforeEqual(_, _)
InsertSortedBeforeEqual(sorted, c) ==
    IF sorted = <<>> THEN <<c>>
    ELSE IF CompareCandidates(c, Head(sorted)) <= 0 THEN <<c>> \o sorted
    ELSE <<Head(sorted)>> \o InsertSortedBeforeEqual(Tail(sorted), c)

\* Insert c into a sorted list behind every element it does not precede
\* (Array.prototype.sort is stable).
RECURSIVE InsertSorted(_, _)
InsertSorted(sorted, c) ==
    IF sorted = <<>> THEN <<c>>
    ELSE IF CompareCandidates(c, Head(sorted)) < 0 THEN <<c>> \o sorted
    ELSE <<Head(sorted)>> \o InsertSorted(Tail(sorted), c)

RECURSIVE SortFrom(_, _, _)
SortFrom(sorted, candidates, k) ==
    IF k > Len(candidates) THEN sorted
    ELSE SortFrom(InsertSorted(sorted, candidates[k]), candidates, k + 1)

\* candidates.sort((a, b) => b.combinedScore - a.combinedScore)
SortCandidates(candidates) == SortFrom(<<>>, candidates, 1)

\* A Confidence that measures the gap against the second score.
ConfidenceRelativeToSecond(candidates) ==
    IF Len(candidates) = 1 THEN Scale
    ELSE IF Len(candidates) > 1
    THEN LET best == candidates[1].combinedScore
             second == candidates[2].combinedScore
             gap == IF second > 0 THEN Min(Scale, ((best - second) * Scale) \div second) ELSE 0
         IN IF candidates[1].totalAppearances > candidates[2].totalAppearances * 2
            THEN Min(Scale, gap + Scale \div 5)
            ELSE gap
    ELSE 0

\* A Confidence without the one-candidate case: the score gap of a list that
\* has no second candidate is taken as 0.
ConfidenceWithoutSingleCase(candidates) ==
    IF Len(candidates) > 1
    THEN LET best == candidates[1].combinedScore
             second == candidates[2].combinedScore
         IN IF best > 0 THEN Min(Scale, ((best - second) * Scale) \div best) ELSE 0
    ELSE 0

\* The confidence of a sorted candidate list.
Confidence(candidates) ==
    IF Len(candidates) = 1 THEN Scale
    ELSE IF Len(candidates) > 1
    THEN LET best == candidates[1].combinedScore
             second == candidates[2].combinedScore
             gap == IF best > 0 THEN Min(Scale, ((best - second) * Scale) \div best) ELSE 0
         IN IF candidates[1].totalAppearances > candidates[2].totalAppearances * 2
            THEN Min(Scale, gap + Scale \div 5)
            ELSE gap
    ELSE 0

\* The lookup entry of one prefix.
LookupEntry(prefix, unsorted) ==
    LET candidates == SortCandidates(unsorted)
    IN [prefix |-> prefix,
        candidates |-> candidates,
        bestMatch |-> IF Len(candidates) > 0 THEN candidates[1].hash ELSE JsNull,
        confidence |-> Confidence(candidates),
        isUnambiguous |-> Len(candidates) = 1]

\* "for (const [prefix, candidates] of prefixToCandidates) lookup.set(...)"
BuildResultsOf(p2c) == [prefix \in DOMAIN p2c |-> LookupEntry(prefix, p2c[prefix])]

-----------------------------------------------------------------------------
(* resolvePrefix and disambiguatePath                                      *)

\* A resolvePrefix that hands an unknown prefix back as its own resolution.
resolvePrefixEchoingUnknown(lk, prefix) ==
    LET normalized == ToUpperCase(prefix)
    IN IF normalized \notin DOMAIN lk THEN [hash |-> normalized, confidence |-> 0]
       ELSE IF Len(lk[normalized].candidates) = 0 THEN [hash |-> normalized, confidence |-> 0]
       ELSE [hash |-> lk[normalized].bestMatch, confidence |-> lk[normalized].confidence]

\* resolvePrefix(lookup, prefix)
resolvePrefix(lk, prefix) ==
    LET normalized == ToUpperCase(prefix)
    IN IF normalized \notin DOMAIN lk THEN [hash |-> JsNull, confidence |-> 0]
       ELSE IF Len(lk[normalized].candidates) = 0 THEN [hash |-> JsNull, confidence |-> 0]
       ELSE [hash |-> lk[normalized].bestMatch, confidence |-> lk[normalized].confidence]

\* The callback of path.map: resolved.hash || prefix
ResolvedOrPrefix(lk, prefix) ==
    IF TruthyString(resolvePrefix(lk, prefix).hash) THEN resolvePrefix(lk, prefix).hash
    ELSE prefix

\* A disambiguatePath that leaves out the hops that did not resolve.
disambiguatePathDroppingUnresolved(lk, path) ==
    LET resolvedOnly == SelectSeq(path, LAMBDA prefix : TruthyString(resolvePrefix(lk, prefix).hash))
    IN [k \in 1..Len(resolvedOnly) |-> ResolvedOrPrefix(lk, resolvedOnly[k])]

\* A disambiguatePath whose loop stops one element early.
disambiguatePathSkippingLast(lk, path) ==
    [k \in 1..(Len(path) - 1) |-> ResolvedOrPrefix(lk, path[k])]

\* disambiguatePath(lookup, path) for an array path
disambiguatePath(lk, path) == [k \in 1..Len(path) |-> ResolvedOrPrefix(lk, path[k])]

\* buildPrefixLookup(samples, repeaters, localHash) at the time nowTs
buildPrefixLookup(smps, reps, localHash, nowTs) ==
    BuildResultsOf(
        ScoreAll(
            AnalyzeSamplesFrom(
                CandidatesOf(GroupRepeatersFrom(EmptyMap, reps, 1, nowTs), nowTs),
                smps, 1, localHash)))

-----------------------------------------------------------------------------
(* routes/nodes.js: GET /get-nodes, sample aggregation                     *)

\* About 1 minute accuracy.
TIME_TRUNCATION == 100000

\* truncateTime(time) = Math.round(time / TIME_TRUNCATION), time >= 0
truncateTime(time) == (time + TIME_TRUNCATION \div 2) \div TIME_TRUNCATION

\* The aggregate a tile starts with.
NewAggregate ==
    [total |-> 0, observed |-> 0, heard |-> 0, lastTime |-> 0,
     repeaters |-> {}, snr |-> Null, rssi |-> Null]

\* "agg.x = (agg.x === null) ? x : Math.max(agg.x, x)" under "if (x !== null)"
MaxDefined(old, new) ==
    IF new = Null THEN old
    ELSE IF old = Null THEN new ELSE Max(old, new)

\* A lastTime that takes the time of the sample folded last.
LatestTimeLastWins(lastTime, time) == time

\* "if (time > agg.lastTime) agg.lastTime = time"
LatestTime(lastTime, time) == IF time > lastTime THEN time ELSE lastTime

\* An AggregateSample that counts a sample as heard when its observed flag
\* is set, not when its path is non-empty.
AggregateSampleHeardIfObserved(aggs, s, lk) ==
    LET prefix == Slice(s.name, 0, 6)
        path == disambiguatePath(lk, s.metadata.path)
        heard == s.metadata.observed = "true"
        observed == IF s.metadata.observed = "null" THEN heard
                    ELSE s.metadata.observed = "true"
        time == IF s.metadata.time = Null THEN 0 ELSE s.metadata.time
        agg == IF prefix \in DOMAIN aggs THEN aggs[prefix] ELSE NewAggregate
    IN MapSet(aggs, prefix,
              [total |-> agg.total + 1,
               observed |-> agg.observed + (IF observed THEN 1 ELSE 0),
               heard |-> agg.heard + (IF heard THEN 1 ELSE 0),
               lastTime |-> LatestTime(agg.lastTime, time),
               repeaters |-> agg.repeaters \cup {path[k] : k \in 1..Len(path)},
               snr |-> MaxDefined(agg.snr, s.metadata.snr),
               rssi |-> MaxDefined(agg.rssi, s.metadata.rssi)])

\* The body of samples.keys.forEach for one sample.
AggregateSample(aggs, s, lk) ==
    LET prefix == Slice(s.name, 0, 6)
        path == disambiguatePath(lk, s.metadata.path)
        heard == Len(path) > 0
        observed == IF s.metadata.observed = "null" THEN heard
                    ELSE s.metadata.observed = "true"
        time == IF s.metadata.time = Null THEN 0 ELSE s.metadata.time
        agg == IF prefix \in DOMAIN aggs THEN aggs[prefix] ELSE NewAggregate
    IN MapSet(aggs, prefix,
              [total |-> agg.total + 1,
               observed |-> agg.observed + (IF observed THEN 1 ELSE 0),
               heard |-> agg.heard + (IF heard THEN 1 ELSE 0),
               lastTime |-> LatestTime(agg.lastTime, time),
               repeaters |-> agg.repeaters \cup {path[k] : k \in 1..Len(path)},
               snr |-> MaxDefined(agg.snr, s.metadata.snr),
               rssi |-> MaxDefined(agg.rssi, s.metadata.rssi)])

RECURSIVE AggregateSamplesFrom(_, _, _, _)
AggregateSamplesFrom(aggs, smps, k, lk) ==
    IF k > Len(smps) THEN aggs
    ELSE AggregateSamplesFrom(AggregateSample(aggs, smps[k], lk), smps, k + 1, lk)

\* One item of aggregatedSamples. path is the sorted array of the tile's
\* repeater set, held as the set; an absent path, snr or rssi is {} or Null.
ResponseItem(id, agg) ==
    [id |-> id,
     time |-> truncateTime(agg.lastTime),
     obs |-> IF agg.observed > 0 THEN 1 ELSE 0,
     heard |-> agg.heard,
     lost |-> agg.total - agg.heard,
     path |-> agg.repeaters,
     snr |-> agg.snr,
     rssi |-> agg.rssi]

-----------------------------------------------------------------------------
(* The database contents a request may read                                *)

MaxRepeaters == 3
MaxSamples == 3

\* Date.now() / 1000 of the request, on an epoch that keeps milliseconds
\* within 32 bits.
NowSeconds == 450 * SecondsPerHour

\* A row time in ms that lies the given hours and seconds before now.
MsAgo(hours, seconds) == (NowSeconds - hours * SecondsPerHour - seconds) * 1000 + 250

\* Rows of the repeaters table in the order of the query (ORDER BY id, time
\* DESC). POST /put-repeater stores ids in lowercase and does not check their
\* length or its characters (ids of 0, 1 and 3 characters, and "zz"); the
\* uppercase id stands for a row written by another client of the table. Coordinates: 37.30,-121.80 / 37.33,-121.80 / 40.00,-122.00 /
\* 37.31,-121.805 / latitude 0 / 37.40,-121.90.
RepeaterTable ==
    << [id |-> <<>>,         lat |-> 1483152, lon |-> 339040, time |-> MsAgo(2, 0)],
       [id |-> <<"a">>,      lat |-> 1483152, lon |-> 339040, time |-> MsAgo(1, 0)],
       [id |-> <<"a", "1">>, lat |-> 1483152, lon |-> 339040, time |-> MsAgo(1, 0)],
       [id |-> <<"a", "1">>, lat |-> 1483502, lon |-> 339040, time |-> MsAgo(100, 0)],
       [id |-> <<"a", "1">>, lat |-> 1514610, lon |-> 337874, time |-> MsAgo(300, 0)],
       [id |-> <<"a", "1">>, lat |-> 1483269, lon |-> 339010, time |-> MsAgo(400, 0)],
       [id |-> <<"A", "1">>, lat |-> ZeroDegrees, lon |-> 339040, time |-> 0],
       [id |-> <<"a", "1", "b">>, lat |-> 1483152, lon |-> 339040, time |-> MsAgo(1, 0)],
       [id |-> <<"b", "2">>, lat |-> 1484318, lon |-> 338457, time |-> MsAgo(336, 0)],
       [id |-> <<"b", "2">>, lat |-> 1483269, lon |-> 339010, time |-> MsAgo(336, 1)],
       [id |-> <<"z", "z">>, lat |-> 1483152, lon |-> 339040, time |-> MsAgo(3, 0)] >>

\* Rows of the samples table in the order of the query (ORDER BY geohash):
\* geohashes 9q9kf07n, 9q9khq7n, 9q9khq7y, 9q9khqe8, 9q9kk206. POST /put-sample
\* stores paths in lowercase; the uppercase path stands for a row written by
\* another client of the table.
SampleTable ==
    << [geohash |-> <<9, 22, 9, 18, 14, 0, 7, 20>>, time |-> MsAgo(5, 0),
        path |-> <<>>, observed |-> "false", snr |-> Null, rssi |-> Null],
       [geohash |-> <<9, 22, 9, 18, 16, 22, 7, 20>>, time |-> MsAgo(2, 0),
        path |-> << <<"a", "1">> >>, observed |-> "true", snr |-> 5, rssi |-> 0 - 90],
       [geohash |-> <<9, 22, 9, 18, 16, 22, 7, 30>>, time |-> MsAgo(9, 0),
        path |-> << <<"b", "2">>, <<"a", "1">> >>, observed |-> "false",
        snr |-> 0 - 3, rssi |-> Null],
       [geohash |-> <<9, 22, 9, 18, 16, 22, 13, 8>>, time |-> MsAgo(3, 0),
        path |-> << <<"A", "1">>, <<"B", "2">> >>, observed |-> "null",
        snr |-> 9, rssi |-> 0 - 100],
       [geohash |-> <<9, 22, 9, 18, 18, 2, 0, 6>>, time |-> MsAgo(4, 0),
        path |-> << <<"c", "3">>, <<"a", "1">>, <<"b", "2">> >>, observed |-> "null",
        snr |-> Null, rssi |-> 0 - 80] >>

\* The rows of a table at the given indices, in table order (the ORDER BY of
\* the query).
RECURSIVE RowsAt(_, _, _)
RowsAt(table, indices, k) ==
    IF k > Len(table) THEN <<>>
    ELSE (IF k \in indices THEN <<table[k]>> ELSE <<>>) \o RowsAt(table, indices, k + 1)

Selections(table, max) == {S \in SUBSET (1..Len(table)) : Cardinality(S) <= max}

-----------------------------------------------------------------------------
(* The GET /get-nodes handler                                              *)

Init ==
    /\ now = NowSeconds
    /\ \E S \in Selections(RepeaterTable, MaxRepeaters) :
          repeaterRows = RowsAt(RepeaterTable, S, 1)
    /\ \E S \in Selections(SampleTable, MaxSamples) :
          sampleRows = RowsAt(SampleTable, S, 1)
    /\ repeaters = <<>>
    /\ samples = <<>>
    /\ pc = "fetch"
    /\ repeatersByPrefix = EmptyMap
    /\ prefixToCandidates = EmptyMap
    /\ lookup = EmptyMap
    /\ resolvedPaths = <<>>
    /\ sampleAggregates = EmptyMap
    /\ aggregatedSamples = EmptyMap
    /\ call = NoCall
    /\ db = EmptyDatabase
    /\ requests = EmptyMap
    /\ writers = NoWriters

\* const [coverage, samples, repeaters] = await Promise.all([... getAll()])
Fetch ==
    /\ pc = "fetch"
    /\ repeaters' = RepeatersGetAll(repeaterRows)
    /\ samples' = SamplesGetAll(sampleRows)
    /\ pc' = "group"
    /\ UNCHANGED <<db, requests, writers, call, now, repeaterRows, sampleRows, repeatersByPrefix, prefixToCandidates,
                   lookup, resolvedPaths, sampleAggregates, aggregatedSamples>>

\* buildPrefixLookup step 1, the grouping loop
GroupRepeaters ==
    /\ pc = "group"
    /\ repeatersByPrefix' = GroupRepeatersFrom(EmptyMap, repeaters, 1, now)
    /\ pc' = "create"
    /\ UNCHANGED <<db, requests, writers, call, now, repeaterRows, sampleRows, repeaters, samples, prefixToCandidates,
                   lookup, resolvedPaths, sampleAggregates, aggregatedSamples>>

\* buildPrefixLookup step 1, the candidate objects
CreateCandidates ==
    /\ pc = "create"
    /\ prefixToCandidates' = CandidatesOf(repeatersByPrefix, now)
    /\ pc' = "analyze"
    /\ UNCHANGED <<db, requests, writers, call, now, repeaterRows, sampleRows, repeaters, samples, repeatersByPrefix,
                   lookup, resolvedPaths, sampleAggregates, aggregatedSamples>>

\* An AnalyzeSamples whose parsePath uppercases the path array in place.
AnalyzeSamplesNormalizingInPlace ==
    /\ pc = "analyze"
    /\ prefixToCandidates' = AnalyzeSamplesFrom(prefixToCandidates, samples, 1, <<>>)
    /\ samples' = [k \in 1..Len(samples) |->
                      [samples[k] EXCEPT !.metadata.path =
                          [i \in 1..Len(@) |-> ToUpperCase(@[i])]]]
    /\ pc' = "score"
    /\ UNCHANGED <<db, requests, writers, call, now, repeaterRows, sampleRows, repeaters, repeatersByPrefix,
                   lookup, resolvedPaths, sampleAggregates, aggregatedSamples>>

\* buildPrefixLookup step 2; GET /get-nodes passes no localHash
AnalyzeSamples ==
    /\ pc = "analyze"
    /\ prefixToCandidates' = AnalyzeSamplesFrom(prefixToCandidates, samples, 1, <<>>)
    /\ pc' = "score"
    /\ UNCHANGED <<db, requests, writers, call, now, repeaterRows, sampleRows, repeaters, samples, repeatersByPrefix,
                   lookup, resolvedPaths, sampleAggregates, aggregatedSamples>>

\* buildPrefixLookup step 3
CalculateScores ==
    /\ pc = "score"
    /\ prefixToCandidates' = ScoreAll(prefixToCandidates)
    /\ pc' = "results"
    /\ UNCHANGED <<db, requests, writers, call, now, repeaterRows, sampleRows, repeaters, samples, repeatersByPrefix,
                   lookup, resolvedPaths, sampleAggregates, aggregatedSamples>>

\* buildPrefixLookup step 4; the sort is in place, so the candidate lists of
\* prefixToCandidates are the sorted lists the lookup entries hold.
BuildResults ==
    /\ pc = "results"
    /\ lookup' = BuildResultsOf(prefixToCandidates)
    /\ prefixToCandidates' =
          [prefix \in DOMAIN prefixToCandidates |-> SortCandidates(prefixToCandidates[prefix])]
    /\ pc' = "aggregate"
    /\ UNCHANGED <<db, requests, writers, call, now, repeaterRows, sampleRows, repeaters, samples, repeatersByPrefix,
                   resolvedPaths, sampleAggregates, aggregatedSamples>>

\* samples.keys.forEach(s => ...)
AggregateSamples ==
    /\ pc = "aggregate"
    /\ resolvedPaths' =
          [k \in 1..Len(samples) |-> disambiguatePath(lookup, samples[k].metadata.path)]
    /\ sampleAggregates' = AggregateSamplesFrom(EmptyMap, samples, 1, lookup)
    /\ pc' = "respond"
    /\ UNCHANGED <<db, requests, writers, call, now, repeaterRows, sampleRows, repeaters, samples, repeatersByPrefix,
                   prefixToCandidates, lookup, aggregatedSamples>>

\* Array.from(sampleAggregates.entries()).map(...) and res.json
Respond ==
    /\ pc = "respond"
    /\ aggregatedSamples' =
          [id \in DOMAIN sampleAggregates |-> ResponseItem(id, sampleAggregates[id])]
    /\ pc' = "done"
    /\ UNCHANGED <<db, requests, writers, call, now, repeaterRows, sampleRows, repeaters, samples, repeatersByPrefix,
                   prefixToCandidates, lookup, resolvedPaths, sampleAggregates>>

Next ==
    \/ Fetch
    \/ GroupRepeaters
    \/ CreateCandidates
    \/ AnalyzeSamples
    \/ CalculateScores
    \/ BuildResults
    \/ AggregateSamples
    \/ Respond

Spec == Init /\ [][Next]_vars

-----------------------------------------------------------------------------
(* The end-to-end scenario: two repeaters of prefix "A1", one near the      *)
(* samples and recent, one far away and old; every sample path is ["A1"].   *)

MaxScenarioSamples == 3

\* 37.30,-121.80 last seen 1 hour ago; 40.00,-122.00 last seen 300 hours ago
NearRepeater == [id |-> <<"A", "1">>, lat |-> 1483152, lon |-> 339040, time |-> MsAgo(1, 0)]
FarRepeater == [id |-> <<"A", "1">>, lat |-> 1514610, lon |-> 337874, time |-> MsAgo(300, 0)]

\* Geohashes 9q9khq7n (37.301,-121.801), 9q9khq7q, 9q9khq7s, 9q9khq7y
ScenarioSampleTable ==
    << [geohash |-> <<9, 22, 9, 18, 16, 22, 7, 20>>, time |-> MsAgo(2, 0),
        path |-> << <<"A", "1">> >>, observed |-> "true", snr |-> 5, rssi |-> 0 - 90],
       [geohash |-> <<9, 22, 9, 18, 16, 22, 7, 22>>, time |-> MsAgo(3, 0),
        path |-> << <<"A", "1">> >>, observed |-> "null", snr |-> Null, rssi |-> 0 - 95],
       [geohash |-> <<9, 22, 9, 18, 16, 22, 7, 24>>, time |-> MsAgo(4, 0),
        path |-> << <<"A", "1">> >>, observed |-> "true", snr |-> 7, rssi |-> Null],
       [geohash |-> <<9, 22, 9, 18, 16, 22, 7, 30>>, time |-> MsAgo(1, 0),
        path |-> << <<"A", "1">> >>, observed |-> "false", snr |-> 0 - 2, rssi |-> 0 - 99] >>

InitEndToEnd ==
    /\ now = NowSeconds
    /\ repeaterRows \in {<<NearRepeater, FarRepeater>>, <<FarRepeater, NearRepeater>>}
    /\ \E S \in Selections(ScenarioSampleTable, MaxScenarioSamples) :
          /\ S # {}
          /\ sampleRows = RowsAt(ScenarioSampleTable, S, 1)
    /\ repeaters = <<>>
    /\ samples = <<>>
    /\ pc = "fetch"
    /\ repeatersByPrefix = EmptyMap
    /\ prefixToCandidates = EmptyMap
    /\ lookup = EmptyMap
    /\ resolvedPaths = <<>>
    /\ sampleAggregates = EmptyMap
    /\ aggregatedSamples = EmptyMap
    /\ call = NoCall
    /\ db = EmptyDatabase
    /\ requests = EmptyMap
    /\ writers = NoWriters

SpecEndToEnd == InitEndToEnd /\ [][Next]_vars

-----------------------------------------------------------------------------
(* Direct calls of the functions of utils/path-utils.js and                 *)
(* utils/prefix-disambiguation.js, with arguments GET /get-nodes does not   *)
(* pass: a local hash, a path that is no array.                             *)

MaxPathLen == 3

\* Path elements: prefixes in both cases, and the empty string.
PathElements == {<<"a", "1">>, <<"A", "1">>, <<"b", "2">>, <<"1", "9">>, <<>>}

\* The arrays of at most n path elements.
PathsUpTo(n) == UNION {[1..k -> PathElements] : k \in 0..n}

\* The values passed as a path: null, a string, an array.
PathValues ==
    {[type |-> "null", items |-> <<>>], [type |-> "string", items |-> <<>>]}
    \cup {[type |-> "array", items |-> path] : path \in PathsUpTo(MaxPathLen)}

\* The values passed as the local hash: none, "0x19", "0XA1", "a1b2c3", "b2",
\* "0x", "1", "0xb".
LocalHashes ==
    {<<>>,
     <<"0", "x", "1", "9">>,
     <<"0", "X", "A", "1">>,
     <<"a", "1", "b", "2", "c", "3">>,
     <<"b", "2">>,
     <<"0", "x">>,
     <<"1">>,
     <<"0", "x", "b">>}

MaxCallRepeaters == 2
MaxBatch == 2

\* The repeaters passed to buildPrefixLookup: seven of id "a1" at 401 m, 500 m,
\* 1900 m, 2000 m, 4001 m, 9005 m and 15003 m from the centre of the geohash
\* 9q9khq7n, and one of id "b2", all last seen 1 hour ago.
CallRepeaterTable ==
    << [id |-> <<"a", "1">>, lat |-> 1483165 + 42, lon |-> 339033, time |-> MsAgo(1, 0)],
       [id |-> <<"a", "1">>, lat |-> 1483165 + 50, lon |-> 339033 + 10, time |-> MsAgo(1, 0)],
       [id |-> <<"a", "1">>, lat |-> 1483165 + 199, lon |-> 339033, time |-> MsAgo(1, 0)],
       [id |-> <<"a", "1">>, lat |-> 1483165 + 105, lon |-> 339033 + 114, time |-> MsAgo(1, 0)],
       [id |-> <<"a", "1">>, lat |-> 1483165 + 419, lon |-> 339033, time |-> MsAgo(1, 0)],
       [id |-> <<"a", "1">>, lat |-> 1483165 + 943, lon |-> 339033, time |-> MsAgo(1, 0)],
       [id |-> <<"a", "1">>, lat |-> 1483165 + 1571, lon |-> 339033, time |-> MsAgo(1, 0)],
       [id |-> <<"b", "2">>, lat |-> 1483165, lon |-> 339033, time |-> MsAgo(1, 0)] >>

\* The samples passed to buildPrefixLookup: two at the geohash 9q9khq7n, two
\* whose name fails to decode, and one at 9q9khq7y with a path of 7 hops.
CallSampleTable ==
    << [geohash |-> <<9, 22, 9, 18, 16, 22, 7, 20>>, time |-> MsAgo(2, 0),
        path |-> << <<"a", "1">> >>, observed |-> "true", snr |-> 5, rssi |-> 0 - 90],
       [geohash |-> <<9, 22, 9, 18, 16, 22, 7, 20>>, time |-> MsAgo(3, 0),
        path |-> << <<"a", "1">>, <<"b", "2">> >>, observed |-> "true",
        snr |-> Null, rssi |-> Null],
       [geohash |-> UndecodableHash, time |-> MsAgo(4, 0),
        path |-> << <<"a", "1">> >>, observed |-> "true", snr |-> 1, rssi |-> Null],
       [geohash |-> UndecodableHash, time |-> MsAgo(5, 0),
        path |-> << <<"b", "2">>, <<"a", "1">> >>, observed |-> "false",
        snr |-> Null, rssi |-> 0 - 70],
       [geohash |-> <<9, 22, 9, 18, 16, 22, 7, 30>>, time |-> MsAgo(6, 0),
        path |-> << <<"a", "1">>, <<"b", "2">>, <<"c", "3">>, <<"d", "4">>,
                    <<"e", "5">>, <<"a", "1">>, <<"b", "2">> >>,
        observed |-> "true", snr |-> Null, rssi |-> Null] >>

\* The arrays of at most n of the samples, in any order.
BatchesUpTo(n) ==
    UNION {{[i \in 1..k |-> SampleKey(CallSampleTable[f[i]])] :
                f \in [1..k -> 1..Len(CallSampleTable)]} : k \in 0..n}

MaxHoursPastFilter == 4

\* The last-seen timestamps passed to calculateRecencyScore: null, a negative
\* one, 0, two in the future, and those of the last 336 hours (the ones the
\* age filter lets through) and a few hours more, on the hour and within it.
LastSeenValues ==
    {Null, 0 - 5, 0, NowSeconds + 1, NowSeconds + SecondsPerHour}
    \cup {NowSeconds - h * SecondsPerHour - sec :
              h \in 0..(MAX_CANDIDATE_AGE_HOURS + MaxHoursPastFilter), sec \in {0, 1799}}

\* The variables of the GET /get-nodes handler
handlerVars == <<now, repeaterRows, sampleRows, repeaters, samples, pc,
                 repeatersByPrefix, prefixToCandidates, lookup, resolvedPaths,
                 sampleAggregates, aggregatedSamples>>

\* No request is being handled.
InitCalls ==
    /\ now = NowSeconds
    /\ repeaterRows = <<>>
    /\ sampleRows = <<>>
    /\ repeaters = <<>>
    /\ samples = <<>>
    /\ pc = "idle"
    /\ repeatersByPrefix = EmptyMap
    /\ prefixToCandidates = EmptyMap
    /\ lookup = EmptyMap
    /\ resolvedPaths = <<>>
    /\ sampleAggregates = EmptyMap
    /\ aggregatedSamples = EmptyMap
    /\ call = NoCall
    /\ db = EmptyDatabase
    /\ requests = EmptyMap
    /\ writers = NoWriters

\* parsePath(path, localHash)
CallParsePath ==
    /\ call = NoCall
    /\ \E path \in PathValues, localHash \in LocalHashes :
          call' = [fn |-> "parsePath",
                   path |-> path,
                   localHash |-> localHash,
                   result |-> parsePathOfValue(path, localHash)]
    /\ UNCHANGED <<handlerVars, db, requests, writers>>

\* buildPrefixLookup(samples, repeaters, localHash)
CallBuildPrefixLookup ==
    /\ call = NoCall
    /\ \E batch \in BatchesUpTo(MaxBatch),
          S \in Selections(CallRepeaterTable, MaxCallRepeaters),
          localHash \in {<<>>, <<"0", "x", "b", "2">>} :
          call' = [fn |-> "buildPrefixLookup",
                   samples |-> batch,
                   repeaters |-> RepeatersGetAll(RowsAt(CallRepeaterTable, S, 1)),
                   localHash |-> localHash,
                   result |-> buildPrefixLookup(
                                  batch, RepeatersGetAll(RowsAt(CallRepeaterTable, S, 1)),
                                  localHash, now)]
    /\ UNCHANGED <<handlerVars, db, requests, writers>>

\* The copies of one sample passed to buildPrefixLookup in one array.
MaxCopies == 50

\* A sample at the geohash 9q9khq7n heard through "b2" and then "a1".
HeardSample ==
    [geohash |-> <<9, 22, 9, 18, 16, 22, 7, 20>>, time |-> MsAgo(2, 0),
     path |-> << <<"b", "2">>, <<"a", "1">> >>, observed |-> "true",
     snr |-> Null, rssi |-> Null]

\* Repeaters around that sample: "a1" at 9005 m, heard an hour ago, "a1" at
\* 401 m, heard in this very second, and "b2" at the sample.
HeardRepeaterTable ==
    << [id |-> <<"a", "1">>, lat |-> 1483165 + 943, lon |-> 339033, time |-> MsAgo(1, 0)],
       [id |-> <<"a", "1">>, lat |-> 1483165 + 42, lon |-> 339033, time |-> NowSeconds * 1000],
       [id |-> <<"b", "2">>, lat |-> 1483165, lon |-> 339033, time |-> NowSeconds * 1000] >>

\* buildPrefixLookup(samples, repeaters) with an array of many samples of
\* one place and path
CallBuildPrefixLookupManySamples ==
    /\ call = NoCall
    /\ \E n \in 0..MaxCopies, S \in Selections(HeardRepeaterTable, MaxCallRepeaters) :
          LET batch == [i \in 1..n |-> SampleKey(HeardSample)]
              reps == RepeatersGetAll(RowsAt(HeardRepeaterTable, S, 1))
          IN call' = [fn |-> "buildPrefixLookup",
                      samples |-> batch,
                      repeaters |-> reps,
                      localHash |-> <<>>,
                      result |-> buildPrefixLookup(batch, reps, <<>>, now)]
    /\ UNCHANGED <<handlerVars, db, requests, writers>>

\* calculateRecencyScore(lastSeenTimestamp), as buildPrefixLookup calls it
CallCalculateRecencyScore ==
    /\ call = NoCall
    /\ \E lastSeen \in LastSeenValues :
          call' = [fn |-> "calculateRecencyScore",
                   lastSeen |-> lastSeen,
                   result |-> calculateRecencyScore(lastSeen, now)]
    /\ UNCHANGED <<handlerVars, db, requests, writers>>

\* The caller has used the result; the next call can be made.
ReturnFromCall ==
    /\ call # NoCall
    /\ call' = NoCall
    /\ UNCHANGED <<handlerVars, db, requests, writers>>

NextCalls ==
    \/ CallParsePath
    \/ CallBuildPrefixLookup
    \/ CallBuildPrefixLookupManySamples
    \/ CallCalculateRecencyScore
    \/ ReturnFromCall

SpecCalls == InitCalls /\ [][NextCalls]_vars

-----------------------------------------------------------------------------
(* The server: GET /get-nodes requests running concurrently with            *)
(* POST /put-sample and POST /put-repeater                                  *)

\* toLowerCase
LowerChar(c) ==
    IF \E k \in 1..Len(UpperChars) : UpperChars[k] = c
    THEN LowerChars[CHOOSE k \in 1..Len(UpperChars) : UpperChars[k] = c]
    ELSE c

ToLowerCase(s) == [k \in 1..Len(s) |-> LowerChar(s[k])]

\* The characters of stored ids and path elements (lowercase hex and beyond)
\* in the order the database compares text.
TextChars == <<"0", "1", "2", "3", "4", "5", "6", "7", "8", "9">> \o LowerChars

CharRank(c) == CHOOSE k \in 1..Len(TextChars) : TextChars[k] = c

\* a < b for text columns
RECURSIVE TextLess(_, _)
TextLess(a, b) ==
    IF b = <<>> THEN FALSE
    ELSE IF a = <<>> THEN TRUE
    ELSE IF a[1] # b[1] THEN CharRank(a[1]) < CharRank(b[1])
    ELSE TextLess(Tail(a), Tail(b))

\* a < b for geohashes: the base-32 alphabet is in text order.
RECURSIVE GeohashLess(_, _)
GeohashLess(a, b) ==
    IF b = <<>> THEN FALSE
    ELSE IF a = <<>> THEN TRUE
    ELSE IF a[1] # b[1] THEN a[1] < b[1]
    ELSE GeohashLess(Tail(a), Tail(b))

\* The cell of a coordinate among 2^20 cells: a coordinate on the border of
\* two cells is in the lower one (ngeohash encode: "if (x > mid)").
CellIndex(units) == IF units <= 0 THEN 0 ELSE (units - 1) \div 2

\* Bit k (1..40) of the 8-character geohash of a position: longitude gives
\* the odd bits, latitude the even ones, most significant first.
EncodeBit(lat, lon, k) ==
    IF k % 2 = 1 THEN (CellIndex(lon) \div (2 ^ (20 - ((k + 1) \div 2)))) % 2
    ELSE (CellIndex(lat) \div (2 ^ (20 - (k \div 2)))) % 2

\* sampleKey(lat, lon) = geo.encode(lat, lon, 8)
sampleKey(lat, lon) ==
    [j \in 1..8 |->
        16 * EncodeBit(lat, lon, 5 * j - 4) + 8 * EncodeBit(lat, lon, 5 * j - 3)
        + 4 * EncodeBit(lat, lon, 5 * j - 2) + 2 * EncodeBit(lat, lon, 5 * j - 1)
        + EncodeBit(lat, lon, 5 * j)]

\* ORDER BY id, time DESC
RepeaterBefore(a, b) == TextLess(a.id, b.id) \/ (a.id = b.id /\ a.time > b.time)

\* The results the query of repeatersModel.getAll() can give: rows the ORDER
\* BY does not separate come in any order.
RECURSIVE RepeaterOrders(_)
RepeaterOrders(rows) ==
    IF rows = {} THEN {<<>>}
    ELSE UNION {{<<first>> \o rest : rest \in RepeaterOrders(rows \ {first})} :
                   first \in {row \in rows : \A other \in rows : ~RepeaterBefore(other, row)}}

\* The result of the query of samplesModel.getAll(): ORDER BY geohash, the
\* primary key.
RECURSIVE SampleOrder(_)
SampleOrder(rows) ==
    IF rows = {} THEN <<>>
    ELSE LET first == CHOOSE row \in rows :
                          \A other \in rows : ~GeohashLess(other.geohash, row.geohash)
         IN <<first>> \o SampleOrder(rows \ {first})

\* SELECT ARRAY(SELECT DISTINCT unnest(...) ORDER BY 1)
RECURSIVE SortedTexts(_)
SortedTexts(texts) ==
    IF texts = {} THEN <<>>
    ELSE LET first == CHOOSE text \in texts : \A other \in texts : ~TextLess(other, text)
         IN <<first>> \o SortedTexts(texts \ {first})

Elements(list) == {list[k] : k \in 1..Len(list)}

\* repeatersModel.upsert(id, lat, lon, name, elev, time, pubkey): INSERT ...
\* ON CONFLICT (id, lat, lon) DO UPDATE SET time = EXCLUDED.time. The name,
\* elevation and public key of a row are not held: the lookup reads none.
RepeatersUpsert(table, id, lat, lon, time) ==
    {row \in table : ~(row.id = id /\ row.lat = lat /\ row.lon = lon)}
    \cup {[id |-> id, lat |-> lat, lon |-> lon, time |-> time]}

\* samplesModel.getWithMetadata(geohash): the row, or no row
ExistingSample(table, geohash) == {row \in table : row.geohash = geohash}

\* "observed ?? (path && path.length > 0)"
ObservedOr(observed, path) ==
    IF observed # "null" THEN observed
    ELSE IF Len(path) > 0 THEN "true" ELSE "false"

\* An upsert that stores the metadata of the request in place of the row.
SamplesUpsertReplacing(table, geohash, time, path, observed, snr, rssi) ==
    {row \in table : row.geohash # geohash}
    \cup {[geohash |-> geohash, time |-> time, path |-> path,
           observed |-> ObservedOr(observed, path), snr |-> snr, rssi |-> rssi]}

\* samplesModel.upsert(geohash, time, path, observed, snr, rssi): INSERT ...
\* ON CONFLICT (geohash) DO UPDATE SET time = GREATEST(...), path = the
\* sorted distinct elements of both paths, observed = the OR, snr and rssi =
\* the greater of those that are not NULL.
SamplesUpsert(table, geohash, time, path, observed, snr, rssi) ==
    LET normalizedObserved == ObservedOr(observed, path)
        existing == ExistingSample(table, geohash)
        old == CHOOSE row \in existing : TRUE
        oldObserved == IF old.observed # "null" THEN old.observed ELSE normalizedObserved
    IN IF existing = {}
       THEN table \cup {[geohash |-> geohash, time |-> time, path |-> path,
                         observed |-> normalizedObserved, snr |-> snr, rssi |-> rssi]}
       ELSE (table \ existing)
            \cup {[geohash |-> geohash,
                   time |-> Max(old.time, time),
                   path |-> SortedTexts(Elements(old.path) \cup Elements(path)),
                   observed |-> IF normalizedObserved = "true" \/ oldObserved = "true"
                                THEN "true" ELSE "false",
                   snr |-> MaxDefined(old.snr, snr),
                   rssi |-> MaxDefined(old.rssi, rssi)]}

\* definedOr(fn, a, b) for fn = Math.max and for fn = or
DefinedOrMax(a, b) ==
    IF a # Null /\ b # Null THEN Max(a, b)
    ELSE IF a = Null /\ b = Null THEN Null
    ELSE IF a # Null THEN a ELSE b

DefinedOrOr(a, b) ==
    IF a # "null" /\ b # "null" THEN (IF a = "true" \/ b = "true" THEN "true" ELSE "false")
    ELSE IF a = "null" /\ b = "null" THEN "null"
    ELSE IF a # "null" THEN a ELSE b

\* [...new Set([...a, ...b])]: the elements in the order of their first
\* occurrence.
RECURSIVE Distinct(_, _)
Distinct(list, seen) ==
    IF list = <<>> THEN <<>>
    ELSE IF Head(list) \in seen THEN Distinct(Tail(list), seen)
    ELSE <<Head(list)>> \o Distinct(Tail(list), seen \cup {Head(list)})

MillisPerDay == 24 * 60 * 60 * 1000

\* The metadata POST /put-sample passes to the upsert: that of the request,
\* merged with the existing sample when that one is less than a day old.
PutSampleMetadata(body, normalizedPath, existing, time) ==
    LET metadata == [time |-> time,
                     path |-> normalizedPath,
                     snr |-> body.snr,
                     rssi |-> body.rssi,
                     observed |-> IF body.observed # "null" THEN body.observed
                                  ELSE IF Len(normalizedPath) > 0 THEN "true" ELSE "false"]
        old == CHOOSE row \in existing : TRUE
    IN IF existing # {} /\ time - old.time < MillisPerDay
       THEN [time |-> Max(metadata.time, old.time),
             snr |-> DefinedOrMax(metadata.snr, old.snr),
             rssi |-> DefinedOrMax(metadata.rssi, old.rssi),
             observed |-> DefinedOrOr(metadata.observed, ObservedOr(old.observed, old.path)),
             path |-> Distinct(metadata.path \o old.path, {})]
       ELSE metadata

\* The POST requests the clients send. POST /put-sample: a sample at the
\* place of a stored sample (geohash 9q9khq7n) with the public key of its
\* first repeater, and one 3.3 km to the north without it. POST
\* /put-repeater: the stored repeater next to the stored sample, and a new
\* one.
PutSampleBodies ==
    { [lat |-> 1483165, lon |-> 339033, path |-> << <<"B", "2">>, <<"A", "1">> >>,
       snr |-> 7, rssi |-> Null, observed |-> "null", repeaterPubkey |-> TRUE],
      [lat |-> 1483503, lon |-> 339041, path |-> << <<"A", "1">> >>,
       snr |-> Null, rssi |-> Null, observed |-> "null", repeaterPubkey |-> FALSE] }

PutRepeaterBodies ==
    { [id |-> <<"A", "1">>, lat |-> 1483152, lon |-> 339040],
      [id |-> <<"B", "2">>, lat |-> 1484318, lon |-> 338457] }

\* The POST requests handled in one behaviour.
MaxWrites == 2

\* The GET /get-nodes requests in flight together.
Requests == {"first", "second"}

\* The tables when the server starts: two repeaters of id "a1", the one next
\* to the sample last heard 200 hours ago, the other one an hour ago; one
\* sample; two coverage tiles.
ServerTables ==
    [repeaters |->
        { [id |-> <<"a", "1">>, lat |-> 1483152, lon |-> 339040, time |-> MsAgo(200, 0)],
          [id |-> <<"a", "1">>, lat |-> 1483502, lon |-> 339040, time |-> MsAgo(1, 0)] },
     samples |->
        { [geohash |-> <<9, 22, 9, 18, 16, 22, 7, 20>>, time |-> MsAgo(2, 0),
           path |-> << <<"a", "1">> >>, observed |-> "true", snr |-> 5, rssi |-> 0 - 90] },
     coverage |->
        << [hash |-> <<9, 22, 9, 18, 16, 22>>,
            hitRepeaters |-> << <<"a", "1">>, <<"b", "2">> >>],
           [hash |-> <<9, 22, 9, 18, 14, 0>>, hitRepeaters |-> <<>>] >>]

\* A request that has called the three getAll() and has no result yet.
NewRequest ==
    [pc |-> "reading", read |-> {}, coverage |-> <<>>, samples |-> <<>>,
     repeaters |-> <<>>, prefixLookup |-> EmptyMap,
     response |-> [coverage |-> <<>>, samples |-> EmptyMap, repeaters |-> <<>>]]

InitServer ==
    /\ now = NowSeconds
    /\ repeaterRows = <<>>
    /\ sampleRows = <<>>
    /\ repeaters = <<>>
    /\ samples = <<>>
    /\ pc = "idle"
    /\ repeatersByPrefix = EmptyMap
    /\ prefixToCandidates = EmptyMap
    /\ lookup = EmptyMap
    /\ resolvedPaths = <<>>
    /\ sampleAggregates = EmptyMap
    /\ aggregatedSamples = EmptyMap
    /\ call = NoCall
    /\ db = ServerTables
    /\ requests = [r \in Requests |-> NewRequest]
    /\ writers = NoWriters

\* POST /put-repeater: the row (id.toLowerCase(), lat, lon) gets the time of
\* the request. getByLocation and getElevation before the upsert decide the
\* elevation only.
PutRepeater ==
    /\ writers.started < MaxWrites
    /\ \E body \in PutRepeaterBodies :
          db' = [db EXCEPT !.repeaters =
                    RepeatersUpsert(@, ToLowerCase(body.id), body.lat, body.lon, now * 1000)]
    /\ writers' = [writers EXCEPT !.started = @ + 1]
    /\ UNCHANGED <<handlerVars, call, requests>>

\* POST /put-sample up to "await samplesModel.upsert(...)": the upsert of the
\* sample. The upsert of the repeater of the public key comes after it.
PutSample ==
    /\ writers.started < MaxWrites
    /\ \E body \in PutSampleBodies :
          LET time == now * 1000
              normalizedPath == [k \in 1..Len(body.path) |-> ToLowerCase(body.path[k])]
              geohash == sampleKey(body.lat, body.lon)
              metadata == PutSampleMetadata(body, normalizedPath,
                                            ExistingSample(db.samples, geohash), time)
          IN /\ db' = [db EXCEPT !.samples =
                          SamplesUpsert(@, geohash, metadata.time, metadata.path,
                                        metadata.observed, metadata.snr, metadata.rssi)]
             /\ writers' =
                   [started |-> writers.started + 1,
                    awaiting |-> writers.awaiting \cup
                        (IF body.repeaterPubkey /\ Len(normalizedPath) > 0
                         THEN {[id |-> normalizedPath[1], lat |-> body.lat,
                                lon |-> body.lon, time |-> time]}
                         ELSE {})]
    /\ UNCHANGED <<handlerVars, call, requests>>

\* POST /put-sample, "await repeatersModel.upsert(repeaterId, ...)"
PutSampleRepeater ==
    /\ \E upsert \in writers.awaiting :
          /\ db' = [db EXCEPT !.repeaters =
                       RepeatersUpsert(@, upsert.id, upsert.lat, upsert.lon, upsert.time)]
          /\ writers' = [writers EXCEPT !.awaiting = @ \ {upsert}]
    /\ UNCHANGED <<handlerVars, call, requests>>

\* The query of coverageModel.getAll() of a request
ReadCoverage(r) ==
    /\ requests[r].pc = "reading"
    /\ "coverage" \notin requests[r].read
    /\ requests' = [requests EXCEPT ![r].coverage = db.coverage,
                                    ![r].read = @ \cup {"coverage"}]
    /\ UNCHANGED <<handlerVars, call, db, writers>>

\* The query of samplesModel.getAll() of a request
ReadSamples(r) ==
    /\ requests[r].pc = "reading"
    /\ "samples" \notin requests[r].read
    /\ requests' = [requests EXCEPT ![r].samples = SamplesGetAll(SampleOrder(db.samples)),
                                    ![r].read = @ \cup {"samples"}]
    /\ UNCHANGED <<handlerVars, call, db, writers>>

\* The query of repeatersModel.getAll() of a request
ReadRepeaters(r) ==
    /\ requests[r].pc = "reading"
    /\ "repeaters" \notin requests[r].read
    /\ \E rows \in RepeaterOrders(db.repeaters) :
          requests' = [requests EXCEPT ![r].repeaters = RepeatersGetAll(rows),
                                       ![r].read = @ \cup {"repeaters"}]
    /\ UNCHANGED <<handlerVars, call, db, writers>>

\* A request that takes the lookup another request has built, when there is
\* one (a lookup kept in the module).
PrefixLookupCarriedOver(r) ==
    IF \E other \in Requests \ {r} : requests[other].pc = "done"
    THEN requests[CHOOSE other \in Requests \ {r} : requests[other].pc = "done"].prefixLookup
    ELSE buildPrefixLookup(requests[r].samples, requests[r].repeaters, <<>>, now)

\* const prefixLookup = buildPrefixLookup(samples.keys, repeaters.keys)
PrefixLookupOfRequest(r) ==
    buildPrefixLookup(requests[r].samples, requests[r].repeaters, <<>>, now)

\* One item of the coverage array of the response: its id and its rptr (no
\* rptr is the empty list).
CoverageItem(c, prefixLookup) ==
    [id |-> c.hash,
     rptr |-> IF Len(c.hitRepeaters) > 0 THEN disambiguatePath(prefixLookup, c.hitRepeaters)
              ELSE <<>>]

\* One item of the repeaters array of the response
RepeaterItem(r) ==
    [time |-> truncateTime(r.metadata.time), id |-> r.metadata.id,
     lat |-> r.metadata.lat, lon |-> r.metadata.lon]

\* responseData
ResponseData(coverage, smps, reps, prefixLookup) ==
    LET aggregates == AggregateSamplesFrom(EmptyMap, smps, 1, prefixLookup)
    IN [coverage |-> [k \in 1..Len(coverage) |-> CoverageItem(coverage[k], prefixLookup)],
        samples |-> [id \in DOMAIN aggregates |-> ResponseItem(id, aggregates[id])],
        repeaters |-> [k \in 1..Len(reps) |-> RepeaterItem(reps[k])]]

\* GET /get-nodes after "await Promise.all(...)": synchronous up to res.json
Compute(r) ==
    /\ requests[r].pc = "reading"
    /\ requests[r].read = {"coverage", "samples", "repeaters"}
    /\ LET prefixLookup == PrefixLookupOfRequest(r)
       IN requests' = [requests EXCEPT
              ![r].prefixLookup = prefixLookup,
              ![r].response = ResponseData(requests[r].coverage, requests[r].samples,
                                           requests[r].repeaters, prefixLookup),
              ![r].pc = "done"]
    /\ UNCHANGED <<handlerVars, call, db, writers>>

NextServer ==
    \/ PutRepeater
    \/ PutSample
    \/ PutSampleRepeater
    \/ \E r \in Requests : ReadCoverage(r)
    \/ \E r \in Requests : ReadSamples(r)
    \/ \E r \in Requests : ReadRepeaters(r)
    \/ \E r \in Requests : Compute(r)

SpecServer == InitServer /\ [][NextServer]_vars

-----------------------------------------------------------------------------
(* routes/admin.js: POST /consolidate                                        *)

\* CONSOLIDATE_MAX_AGE_DAYS: 14 days when neither the query nor the
\* environment gives one.
DefaultMaxAgeDays == 14

\* POST /consolidate requests handled in one behaviour.
MaxRuns == 2

\* The samples table before the first run: three samples of 380 hours and
\* more in the tile 9q9khq, one in the tile 9q9kf0, and a sample of 24 hours
\* that no run takes; none has
\* been merged into coverage or archived.
ConsolidateTables ==
    [samples |->
        { [geohash |-> <<9, 22, 9, 18, 16, 22, 7, 20>>, time |-> MsAgo(400, 0),
           path |-> << <<"a", "1">> >>],
          [geohash |-> <<9, 22, 9, 18, 16, 22, 7, 30>>, time |-> MsAgo(400, 0), path |-> <<>>],
          [geohash |-> <<9, 22, 9, 18, 16, 22, 8, 2>>, time |-> MsAgo(380, 0),
           path |-> << <<"a", "1">>, <<"b", "2">> >>],
          [geohash |-> <<9, 22, 9, 18, 14, 0, 7, 20>>, time |-> MsAgo(400, 0),
           path |-> << <<"b", "2">> >>],
          [geohash |-> <<9, 22, 9, 18, 18, 2, 0, 6>>, time |-> MsAgo(24, 0),
           path |-> << <<"a", "1">> >>] },
     merged |-> <<>>,
     archive |-> <<>>]

\* samplesModel.getOlderThan(maxAgeDays): time < cutoffTime ORDER BY geohash
getOlderThan(table, maxAgeDays, nowMs) ==
    SampleOrder({row \in table : row.time < nowMs - maxAgeDays * MillisPerDay})

\* oldSamples.forEach(...): the Map 6-character geohash -> samples, as the list
\* of its entries in insertion order, from the k-th old sample on.
RECURSIVE GroupByTileFrom(_, _, _)
GroupByTileFrom(groups, oldSamples, k) ==
    IF k > Len(oldSamples) THEN groups
    ELSE LET coverageHash == Slice(oldSamples[k].geohash, 0, 6)
             sample == [key |-> oldSamples[k].geohash, time |-> oldSamples[k].time,
                        path |-> oldSamples[k].path]
             known == {g \in 1..Len(groups) : groups[g].geohash = coverageHash}
         IN GroupByTileFrom(
                IF known = {}
                THEN Append(groups, [geohash |-> coverageHash, samples |-> <<sample>>])
                ELSE [g \in 1..Len(groups) |->
                         IF g \in known
                         THEN [groups[g] EXCEPT !.samples = Append(@, sample)]
                         ELSE groups[g]],
                oldSamples, k + 1)

\* The handler when no request is handled.
NoRun == [pc |-> "idle"]

\* The samples of the tile mergedKeys[i].
SamplesOfMergedKey(run, i) ==
    LET g == CHOOSE g \in 1..Len(run.hashToSamples) :
                 run.hashToSamples[g].geohash = run.mergedKeys[i]
    IN run.hashToSamples[g].samples

\* The place of the handler after the merge loop or after the sample (i, j)
\* of the archive loop: the next sample of the tile, the first sample of the
\* next merged tile, or res.json(result).
AtSample(run, i, j) ==
    IF i > Len(run.mergedKeys) THEN [run EXCEPT !.pc = "done"]
    ELSE [run EXCEPT !.pc = "archive", !.i = i, !.j = j]

NextSample(run) ==
    IF run.j < Len(SamplesOfMergedKey(run, run.i)) THEN AtSample(run, run.i, run.j + 1)
    ELSE AtSample(run, run.i + 1, 1)

\* POST /consolidate up to the merge loop: getOlderThan and the grouping
StartConsolidate ==
    /\ requests.pc \in {"idle", "done"}
    /\ writers.started < MaxRuns
    /\ LET oldSamples == getOlderThan(db.samples, DefaultMaxAgeDays, now * 1000)
           hashToSamples == GroupByTileFrom(<<>>, oldSamples, 1)
           run == [pc |-> "merge", hashToSamples |-> hashToSamples, mergedKeys |-> <<>>,
                   g |-> 1, i |-> 1, j |-> 1, before |-> db,
                   result |-> [coverage_entites_to_update |-> Len(hashToSamples),
                               samples_to_update |-> Len(oldSamples),
                               merged_ok |-> 0, merged_fail |-> 0,
                               archive_ok |-> 0, archive_fail |-> 0,
                               delete_ok |-> 0, delete_fail |-> 0, delete_skip |-> 0]]
       IN requests' = IF Len(hashToSamples) = 0 THEN AtSample(run, 1, 1) ELSE run
    /\ writers' = [writers EXCEPT !.started = @ + 1]
    /\ UNCHANGED <<handlerVars, call, db>>

\* "await coverageModel.mergeCoverage(geohash, samples)" of one tile: it
\* returns, and the samples are merged into the coverage tile, or it throws.
MergeCoverage ==
    /\ requests.pc = "merge"
    /\ \E ok \in BOOLEAN :
          LET tile == requests.hashToSamples[requests.g]
              merged == [requests EXCEPT
                            !.g = @ + 1,
                            !.mergedKeys = IF ok THEN Append(@, tile.geohash) ELSE @,
                            !.result.merged_ok = IF ok THEN @ + 1 ELSE @,
                            !.result.merged_fail = IF ok THEN @ ELSE @ + 1]
          IN /\ requests' = IF merged.g > Len(merged.hashToSamples)
                            THEN AtSample(merged, 1, 1) ELSE merged
             /\ db' = IF ok
                      THEN [db EXCEPT !.merged =
                               @ \o [k \in 1..Len(tile.samples) |-> tile.samples[k].key]]
                      ELSE db
    /\ UNCHANGED <<handlerVars, call, writers>>

\* A handler that goes on to the delete when the archive insert has thrown.
AfterArchiveAlwaysDeleting(run, ok) ==
    [run EXCEPT !.pc = "delete",
                !.result.archive_ok = IF ok THEN @ + 1 ELSE @,
                !.result.archive_fail = IF ok THEN @ ELSE @ + 1]

\* The handler after "await archiveModel.insert(...)" has returned (ok) or
\* thrown: the delete of the sample, or the catch block and the next sample.
AfterArchive(run, ok) ==
    IF ok THEN [run EXCEPT !.pc = "delete", !.result.archive_ok = @ + 1]
    ELSE NextSample([run EXCEPT !.result.archive_fail = @ + 1,
                                !.result.delete_skip = @ + 1])

\* "await archiveModel.insert(sample.key, sample.time, sample.path)"
ArchiveSample ==
    /\ requests.pc = "archive"
    /\ \E ok \in BOOLEAN :
          /\ requests' = AfterArchive(requests, ok)
          /\ db' = IF ok
                   THEN [db EXCEPT !.archive =
                            Append(@, SamplesOfMergedKey(requests, requests.i)[requests.j].key)]
                   ELSE db
    /\ UNCHANGED <<handlerVars, call, writers>>

\* "await samplesModel.deleteByGeohash(sample.key)"
DeleteSample ==
    /\ requests.pc = "delete"
    /\ \E ok \in BOOLEAN :
          LET key == SamplesOfMergedKey(requests, requests.i)[requests.j].key
          IN /\ requests' = NextSample([requests EXCEPT
                                           !.result.delete_ok = IF ok THEN @ + 1 ELSE @,
                                           !.result.delete_fail = IF ok THEN @ ELSE @ + 1])
             /\ db' = IF ok
                      THEN [db EXCEPT !.samples = {row \in @ : row.geohash # key}]
                      ELSE db
    /\ UNCHANGED <<handlerVars, call, writers>>

InitConsolidate ==
    /\ now = NowSeconds
    /\ repeaterRows = <<>>
    /\ sampleRows = <<>>
    /\ repeaters = <<>>
    /\ samples = <<>>
    /\ pc = "idle"
    /\ repeatersByPrefix = EmptyMap
    /\ prefixToCandidates = EmptyMap
    /\ lookup = EmptyMap
    /\ resolvedPaths = <<>>
    /\ sampleAggregates = EmptyMap
    /\ aggregatedSamples = EmptyMap
    /\ call = NoCall
    /\ db = ConsolidateTables
    /\ requests = NoRun
    /\ writers = NoWriters

NextConsolidate ==
    \/ StartConsolidate
    \/ MergeCoverage
    \/ ArchiveSample
    \/ DeleteSample

SpecConsolidate == InitConsolidate /\ [][NextConsolidate]_vars

-----------------------------------------------------------------------------
(* POST /put-sample with drivers, models/drivers.js                        *)

\* coverageKey(lat, lon) = geo.encode(lat, lon, 6): the first 6 characters of
\* the 8-character geohash.
coverageKey(lat, lon) == SubSeq(sampleKey(lat, lon), 1, 6)

\* The drivers column and the drivers of a request are texts; "" stands for
\* NULL, undefined and '', which the handler and the queries treat alike.
\* "metadata.drivers" of POST /put-sample: that of a wardrive request, or that
\* of the existing sample.
PutSampleDrivers(body, existing) ==
    IF body.drivers # "" THEN body.drivers
    ELSE IF existing # {} THEN (CHOOSE row \in existing : TRUE).drivers
    ELSE ""

\* samplesModel.upsert(geohash, time, path, observed, snr, rssi, drivers):
\* SamplesUpsert and the drivers column, "CASE WHEN EXCLUDED.drivers IS NOT
\* NULL AND EXCLUDED.drivers != '' THEN EXCLUDED.drivers WHEN samples.drivers
\* ... THEN samples.drivers ELSE NULL".
SamplesUpsertDrivers(table, geohash, metadata, drivers) ==
    LET existing == ExistingSample(table, geohash)
        stored == SamplesUpsert(table, geohash, metadata.time, metadata.path,
                                metadata.observed, metadata.snr, metadata.rssi)
        row == CHOOSE row \in stored : row.geohash = geohash
    IN {other \in table : other.geohash # geohash}
       \cup {[geohash |-> row.geohash, time |-> row.time, path |-> row.path,
              observed |-> row.observed, snr |-> row.snr, rssi |-> row.rssi,
              drivers |-> IF drivers # "" THEN drivers
                          ELSE IF existing # {}
                               THEN (CHOOSE old \in existing : TRUE).drivers
                               ELSE ""]}

\* The row of a driver and a tile in the drivers table, or no row
DriverRow(table, name, geohash) ==
    {row \in table : row.name = name /\ row.geohash = geohash}

\* INSERT ... ON CONFLICT (name, geohash) DO UPDATE with the given values of
\* a new row and the given change of an existing one; hit and miss DEFAULT 0.
DriversUpsert(table, name, geohash, inserted, hits, misses) ==
    LET existing == DriverRow(table, name, geohash)
        old == CHOOSE row \in existing : TRUE
    IN IF existing = {}
       THEN table \cup {[name |-> name, geohash |-> geohash,
                         hit |-> inserted.hit, miss |-> inserted.miss]}
       ELSE (table \ existing)
            \cup {[name |-> name, geohash |-> geohash,
                   hit |-> old.hit + hits, miss |-> Max(0, old.miss + misses)]}

incrementMiss(table, name, geohash) ==
    DriversUpsert(table, name, geohash, [hit |-> 0, miss |-> 1], 0, 1)

incrementHit(table, name, geohash) ==
    DriversUpsert(table, name, geohash, [hit |-> 1, miss |-> 0], 1, 0)

\* hit = drivers.hit + 1, miss = GREATEST(0, drivers.miss - 1)
convertMissToHit(table, name, geohash) ==
    DriversUpsert(table, name, geohash, [hit |-> 1, miss |-> 0], 1, 0 - 1)

\* The 5 minute window of convertMissToHitIfRecent.
TimeWindowMs == 300000

\* convertMissToHitIfRecent, the check query: the samples of the tile and the
\* driver within the window with "observed = false OR path = '{}' OR ...".
RecentMisses(table, name, geohash, time, timeWindowMs) ==
    {s \in table :
        /\ SubSeq(s.geohash, 1, 6) = geohash
        /\ s.drivers = name
        /\ s.time >= time - timeWindowMs
        /\ s.time <= time + timeWindowMs
        /\ (s.observed = "false" \/ Len(s.path) = 0)}

\* convertMissToHitIfRecent, the update query: "UPDATE drivers SET hit = hit
\* + 1, miss = GREATEST(0, miss - 1) WHERE name = $1 AND geohash = $2 AND
\* miss > 0"; its rows.
RowsWithMiss(table, name, geohash) ==
    {row \in DriverRow(table, name, geohash) : row.miss > 0}

\* A handler that adds the hit whatever the conversion has returned.
AfterConvertAlwaysIncrementing(converted) == "incrementHit"

\* "if (!converted) { await driversModel.incrementHit(...) }"
AfterConvert(converted) == IF converted THEN "done" ELSE "incrementHit"

\* The samples and drivers tables when the server starts: a sample of two
\* hours at 9q9khq7n and a sample of exactly one day in another tile; no
\* driver has a row.
PutSampleTables ==
    [samples |->
        { [geohash |-> sampleKey(1483165, 339033), time |-> MsAgo(2, 0),
           path |-> << <<"a", "1">> >>, observed |-> "true", snr |-> 5, rssi |-> 0 - 90,
           drivers |-> ""],
          [geohash |-> sampleKey(1483503, 339041),
           time |-> NowSeconds * 1000 - MillisPerDay,
           path |-> << <<"a", "1">> >>, observed |-> "true", snr |-> 5, rssi |-> 0 - 90,
           drivers |-> ""] },
     drivers |-> {}]

\* The bodies of POST /put-sample: an MQTT observation at the sample of two
\* hours; a wardrive ping not observed at the sample of one day; in the tile
\* 9q9khq a wardrive ping observed with an empty path and one not observed at
\* 9q9khq7q, and one observed through A1 at 9q9khq7p. None has a
\* repeaterPubkey.
PutSampleRequests ==
    { [lat |-> 1483165, lon |-> 339033, path |-> << <<"B", "2">> >>,
       snr |-> 7, rssi |-> Null, observed |-> "null", drivers |-> ""],
      [lat |-> 1483503, lon |-> 339041, path |-> <<>>,
       snr |-> 2, rssi |-> Null, observed |-> "false", drivers |-> "d"],
      [lat |-> 1483165, lon |-> 339035, path |-> <<>>,
       snr |-> Null, rssi |-> Null, observed |-> "true", drivers |-> "d"],
      [lat |-> 1483165, lon |-> 339035, path |-> <<>>,
       snr |-> Null, rssi |-> Null, observed |-> "false", drivers |-> "d"],
      [lat |-> 1483167, lon |-> 339033, path |-> << <<"A", "1">> >>,
       snr |-> 3, rssi |-> 0 - 80, observed |-> "null", drivers |-> "d"] }

\* The bodies of POST /update-driver-miss and POST /update-driver-hit.
DriverBodies == { [name |-> "d", lat |-> 1483165, lon |-> 339035] }

\* The POST /put-sample handlers that run together.
Handlers == {1, 2}

\* The POST requests received in one behaviour.
MaxPuts == 3

IdleHandler == [pc |-> "idle"]

InitPutSample ==
    /\ now = NowSeconds
    /\ repeaterRows = <<>>
    /\ sampleRows = <<>>
    /\ repeaters = <<>>
    /\ samples = <<>>
    /\ pc = "idle"
    /\ repeatersByPrefix = EmptyMap
    /\ prefixToCandidates = EmptyMap
    /\ lookup = EmptyMap
    /\ resolvedPaths = <<>>
    /\ sampleAggregates = EmptyMap
    /\ aggregatedSamples = EmptyMap
    /\ call = NoCall
    /\ db = PutSampleTables
    /\ requests = [h \in Handlers |-> IdleHandler]
    /\ writers = NoWriters

\* POST /put-sample up to "await samplesModel.getWithMetadata(geohash)"
ReceivePutSample(h) ==
    /\ requests[h].pc \in {"idle", "done"}
    /\ writers.started < MaxPuts
    /\ \E body \in PutSampleRequests :
          LET geohash == sampleKey(body.lat, body.lon)
          IN requests' = [requests EXCEPT ![h] =
                 [pc |-> "upsert", body |-> body, time |-> now * 1000,
                  geohash |-> geohash, coverageGeohash |-> coverageKey(body.lat, body.lon),
                  existing |-> ExistingSample(db.samples, geohash),
                  metadata |-> [drivers |-> ""], isObserved |-> FALSE, hits |-> 0]]
    /\ writers' = [writers EXCEPT !.started = @ + 1]
    /\ UNCHANGED <<handlerVars, call, db>>

\* POST /put-sample from the merge of the metadata to "await
\* samplesModel.upsert(...)" and the test of isObserved and of the drivers.
UpsertSample(h) ==
    /\ requests[h].pc = "upsert"
    /\ LET q == requests[h]
           normalizedPath == [k \in 1..Len(q.body.path) |-> ToLowerCase(q.body.path[k])]
           merged == PutSampleMetadata(q.body, normalizedPath, q.existing, q.time)
           drivers == PutSampleDrivers(q.body, q.existing)
           isObserved == merged.observed = "true" \/ Len(normalizedPath) > 0
       IN /\ db' = [db EXCEPT !.samples =
                       SamplesUpsertDrivers(@, q.geohash, merged, drivers)]
          /\ requests' = [requests EXCEPT
                ![h].metadata = [time |-> merged.time, path |-> merged.path,
                                 snr |-> merged.snr, rssi |-> merged.rssi,
                                 observed |-> merged.observed, drivers |-> drivers],
                ![h].isObserved = isObserved,
                ![h].pc = IF isObserved /\ drivers # "" THEN "check" ELSE "done"]
    /\ UNCHANGED <<handlerVars, call, writers>>

\* convertMissToHitIfRecent, the check query and "if (missCount === 0)
\* return false"
CheckRecentMiss(h) ==
    /\ requests[h].pc = "check"
    /\ LET q == requests[h]
           missCount == Cardinality(RecentMisses(db.samples, q.metadata.drivers,
                                                 q.coverageGeohash, q.metadata.time,
                                                 TimeWindowMs))
       IN requests' = [requests EXCEPT
              ![h].pc = IF missCount = 0 THEN AfterConvert(FALSE) ELSE "convert"]
    /\ UNCHANGED <<handlerVars, call, db, writers>>

\* convertMissToHitIfRecent, the update query and "return
\* updateResult.rowCount > 0"
ConvertMiss(h) ==
    /\ requests[h].pc = "convert"
    /\ LET q == requests[h]
           rows == RowsWithMiss(db.drivers, q.metadata.drivers, q.coverageGeohash)
       IN /\ db' = IF rows = {} THEN db
                   ELSE [db EXCEPT !.drivers =
                            convertMissToHit(@, q.metadata.drivers, q.coverageGeohash)]
          /\ requests' = [requests EXCEPT
                ![h].pc = AfterConvert(rows # {}),
                ![h].hits = IF rows = {} THEN @ ELSE @ + 1]
    /\ UNCHANGED <<handlerVars, call, writers>>

\* "await driversModel.incrementHit(metadata.drivers, coverageGeohash)"
IncrementHit(h) ==
    /\ requests[h].pc = "incrementHit"
    /\ db' = [db EXCEPT !.drivers =
                 incrementHit(@, requests[h].metadata.drivers, requests[h].coverageGeohash)]
    /\ requests' = [requests EXCEPT ![h].pc = "done", ![h].hits = @ + 1]
    /\ UNCHANGED <<handlerVars, call, writers>>

\* POST /update-driver-miss
UpdateDriverMiss ==
    /\ writers.started < MaxPuts
    /\ \E body \in DriverBodies :
          db' = [db EXCEPT !.drivers =
                    incrementMiss(@, body.name, coverageKey(body.lat, body.lon))]
    /\ writers' = [writers EXCEPT !.started = @ + 1]
    /\ UNCHANGED <<handlerVars, call, requests>>

\* POST /update-driver-hit
UpdateDriverHit ==
    /\ writers.started < MaxPuts
    /\ \E body \in DriverBodies :
          db' = [db EXCEPT !.drivers =
                    convertMissToHit(@, body.name, coverageKey(body.lat, body.lon))]
    /\ writers' = [writers EXCEPT !.started = @ + 1]
    /\ UNCHANGED <<handlerVars, call, requests>>

NextPutSample ==
    \/ \E h \in Handlers :
          \/ ReceivePutSample(h)
          \/ UpsertSample(h)
          \/ CheckRecentMiss(h)
          \/ ConvertMiss(h)
          \/ IncrementHit(h)
    \/ UpdateDriverMiss
    \/ UpdateDriverHit

SpecPutSample == InitPutSample /\ [][NextPutSample]_vars

-----------------------------------------------------------------------------
(* Properties                                                              *)

\* buildPrefixLookup has returned: lookup is the request's prefixLookup.
LookupBuilt == pc \in {"aggregate", "respond", "done"}

\* The forEach over the samples has run: resolvedPaths holds its paths.
PathsResolved == pc \in {"respond", "done"}

\* The raw path of the k-th sample.
RawPath(k) == samples[k].metadata.path

\* The repeater has a 2-character prefix and passes the age filter.
IsKept(repeater) ==
    /\ Len(PrefixOf(repeater)) = 2
    /\ ~(LastSeenOf(repeater) > 0
         /\ now - LastSeenOf(repeater) > MAX_CANDIDATE_AGE_HOURS * SecondsPerHour)

\* Some candidate list holds a candidate made from the repeater.
IsCandidate(repeater) ==
    \E prefix \in DOMAIN lookup :
        \E k \in 1..Len(lookup[prefix].candidates) :
            LET c == lookup[prefix].candidates[k]
            IN /\ c.prefix = PrefixOf(repeater)
               /\ c.latitude = repeater.metadata.lat
               /\ c.longitude = repeater.metadata.lon
               /\ c.lastSeenTimestamp = LastSeenOf(repeater)

\* C1: disambiguatePath returns an array of the length of its input in which
\* element i is the bestMatch of the lookup entry of uppercase(p[i]), or p[i]
\* itself when that prefix has no entry; no hop is dropped, added or reordered.
C1_PathShapeKept ==
    PathsResolved =>
        /\ Len(resolvedPaths) = Len(samples)
        /\ \A k \in 1..Len(samples) :
              /\ Len(resolvedPaths[k]) = Len(RawPath(k))
              /\ \A i \in 1..Len(RawPath(k)) :
                    IF ToUpperCase(RawPath(k)[i]) \in DOMAIN lookup
                    THEN resolvedPaths[k][i] = lookup[ToUpperCase(RawPath(k)[i])].bestMatch
                    ELSE resolvedPaths[k][i] = RawPath(k)[i]

\* C1 witness: a path of the response in which one hop was replaced by its
\* resolution and another, unknown to the lookup, was passed through.
C1_Witness ==
    /\ pc = "done"
    /\ \E k \in 1..Len(samples) :
          /\ \E i \in 1..Len(RawPath(k)) :
                /\ ToUpperCase(RawPath(k)[i]) \in DOMAIN lookup
                /\ resolvedPaths[k][i] # RawPath(k)[i]
          /\ \E i \in 1..Len(RawPath(k)) :
                /\ ToUpperCase(RawPath(k)[i]) \notin DOMAIN lookup
                /\ resolvedPaths[k][i] = RawPath(k)[i]

\* Prefixes resolved against every lookup: those of the sample paths, a
\* 1-character one and one no repeater carries.
ProbePrefixes ==
    UNION {{SampleTable[k].path[i] : i \in 1..Len(SampleTable[k].path)} :
              k \in 1..Len(SampleTable)}
    \cup {<<"a">>, <<"A">>, <<"F", "F">>, <<"B", "2">>, <<"a", "1">>}

\* No repeater of the request is a candidate of the prefix.
ZeroCandidates(prefix) ==
    \A k \in 1..Len(repeaters) :
        ~(IsKept(repeaters[k]) /\ PrefixOf(repeaters[k]) = ToUpperCase(prefix))

\* C2: resolvePrefix returns exactly {hash: null, confidence: 0} for every
\* prefix that has zero candidates: one no repeater carries, and one all of
\* whose repeaters were excluded by the age filter or the 2-character check.
C2_UnknownPrefixIsNull ==
    LookupBuilt =>
        \A prefix \in ProbePrefixes :
            ZeroCandidates(prefix) =>
                resolvePrefix(lookup, prefix) = [hash |-> JsNull, confidence |-> 0]

\* C2 witness: the request read a repeater of prefix B2 that the age filter
\* excluded and one whose id has 1 character; neither prefix resolves.
C2_Witness ==
    /\ pc = "done"
    /\ \E k \in 1..Len(repeaters) :
          /\ PrefixOf(repeaters[k]) = <<"B", "2">>
          /\ ~IsKept(repeaters[k])
    /\ \E k \in 1..Len(repeaters) : PrefixOf(repeaters[k]) = <<"A">>
    /\ resolvePrefix(lookup, <<"b", "2">>).hash = JsNull
    /\ resolvePrefix(lookup, <<"A">>).hash = JsNull

\* C3: every lookup entry is unambiguous iff it has exactly one candidate, and
\* an entry with exactly one candidate has confidence 1.0 whatever the samples.
C3_SingleCandidateIsCertain ==
    LookupBuilt =>
        \A prefix \in DOMAIN lookup :
            /\ lookup[prefix].isUnambiguous <=> (Len(lookup[prefix].candidates) = 1)
            /\ Len(lookup[prefix].candidates) = 1 => lookup[prefix].confidence = Scale

\* C3 witness: a lookup with a one-candidate entry whose prefix the samples
\* carry, and a two-candidate entry.
C3_Witness ==
    /\ pc = "done"
    /\ \E prefix \in DOMAIN lookup :
          /\ Len(lookup[prefix].candidates) = 1
          /\ lookup[prefix].candidates[1].totalAppearances > 0
          /\ lookup[prefix].isUnambiguous
    /\ \E prefix \in DOMAIN lookup :
          /\ Len(lookup[prefix].candidates) = 2
          /\ ~lookup[prefix].isUnambiguous

\* C4: each prefix has one winner: the candidates are ordered by combinedScore
\* non-increasing, bestMatch is the identity of candidates[0], and no candidate
\* of the prefix scores strictly more than the one chosen.
C4_BestScoreWins ==
    LookupBuilt =>
        \A prefix \in DOMAIN lookup :
            LET cs == lookup[prefix].candidates
            IN /\ \A k \in 1..(Len(cs) - 1) : cs[k].combinedScore >= cs[k + 1].combinedScore
               /\ Len(cs) > 0 => lookup[prefix].bestMatch = cs[1].hash
               /\ \A k \in 1..Len(cs) : ~(cs[k].combinedScore > cs[1].combinedScore)

\* C4 witness: the repeater that came second in the input (last-seen unknown)
\* outscores the first (last seen 300 hours ago) and is candidates[0].
C4_Witness ==
    /\ pc = "done"
    /\ \E prefix \in DOMAIN lookup :
          /\ Len(lookup[prefix].candidates) = 2
          /\ Len(repeatersByPrefix[prefix]) = 2
          /\ lookup[prefix].candidates[1].combinedScore
                > lookup[prefix].candidates[2].combinedScore
          /\ lookup[prefix].candidates[1].lastSeenTimestamp = repeatersByPrefix[prefix][2].time
          /\ lookup[prefix].candidates[1].lastSeenTimestamp # repeatersByPrefix[prefix][1].time

\* The confidence the scoring rule gives a sorted list of two or more
\* candidates: the clamped relative gap of the two best scores, raised by
\* 0.2 (capped at 1.0) when the best appeared over twice as often.
ExpectedConfidence(cs) ==
    LET best == cs[1].combinedScore
        second == cs[2].combinedScore
        gap == IF best > 0 THEN Max(0, Min(Scale, ((best - second) * Scale) \div best)) ELSE 0
    IN IF cs[1].totalAppearances > 2 * cs[2].totalAppearances
       THEN Min(gap + Scale \div 5, Scale)
       ELSE gap

\* C5: an entry with two or more candidates has confidence
\* clamp((best - second) / best, 0, 1) when best > 0 and 0 otherwise, plus 0.2
\* capped at 1.0 when candidates[0] appeared more than twice as often as
\* candidates[1]; every entry has 0 <= confidence <= 1.
C5_ConfidenceFormula ==
    LookupBuilt =>
        \A prefix \in DOMAIN lookup :
            /\ Len(lookup[prefix].candidates) >= 2 =>
                  lookup[prefix].confidence = ExpectedConfidence(lookup[prefix].candidates)
            /\ 0 <= lookup[prefix].confidence
            /\ lookup[prefix].confidence <= Scale

\* C5 witness: an entry of three candidates with a confidence strictly
\* between 0 and 1, built from samples that carry the prefix.
C5_Witness ==
    /\ pc = "done"
    /\ \E prefix \in DOMAIN lookup :
          /\ Len(lookup[prefix].candidates) = 3
          /\ lookup[prefix].candidates[1].totalAppearances > 0
          /\ lookup[prefix].confidence > 0
          /\ lookup[prefix].confidence < Scale

\* The request read the two repeaters of the scenario and at least one
\* sample; every sample has the path ["A1"] and lies within 500 m of the
\* recent repeater and more than 10 km from the old one.
EndToEndScenario ==
    /\ Len(repeaters) = 2
    /\ {repeaters[1], repeaters[2]} = {RepeaterKey(NearRepeater), RepeaterKey(FarRepeater)}
    /\ now - LastSeenOf(RepeaterKey(NearRepeater)) = SecondsPerHour
    /\ now - LastSeenOf(RepeaterKey(FarRepeater)) = 300 * SecondsPerHour
    /\ Len(samples) >= 1
    /\ \A k \in 1..Len(samples) :
          /\ RawPath(k) = << <<"A", "1">> >>
          /\ calculateDistance(posFromHash(samples[k].name)[1], posFromHash(samples[k].name)[2],
                               NearRepeater.lat, NearRepeater.lon) < 500
          /\ calculateDistance(posFromHash(samples[k].name)[1], posFromHash(samples[k].name)[2],
                               FarRepeater.lat, FarRepeater.lon) > 10000

\* C6: in the end-to-end scenario the nearby recent repeater is candidates[0]
\* of the "A1" entry, "A1" resolves, and the confidence is above 0.5.
C6_EndToEnd ==
    (LookupBuilt /\ EndToEndScenario) =>
        /\ <<"A", "1">> \in DOMAIN lookup
        /\ Len(lookup[<<"A", "1">>].candidates) = 2
        /\ lookup[<<"A", "1">>].candidates[1].latitude = NearRepeater.lat
        /\ lookup[<<"A", "1">>].candidates[1].longitude = NearRepeater.lon
        /\ lookup[<<"A", "1">>].candidates[1].lastSeenTimestamp = now - SecondsPerHour
        /\ resolvePrefix(lookup, <<"A", "1">>).hash = lookup[<<"A", "1">>].candidates[1].hash
        /\ resolvePrefix(lookup, <<"A", "1">>).confidence > Scale \div 2

\* C6 witness: the scenario with the old far repeater first in the input and
\* a single sample, after the response was built.
C6_Witness ==
    /\ pc = "done"
    /\ EndToEndScenario
    /\ repeaters[1] = RepeaterKey(FarRepeater)
    /\ Len(samples) = 1
    /\ lookup[<<"A", "1">>].candidates[1].srcGeoEvidenceCount = 1
    /\ lookup[<<"A", "1">>].confidence > Scale \div 2

Permuted(smps, order) == [k \in 1..Len(smps) |-> smps[order[k]]]

\* The aggregates GET /get-nodes computes from the given samples.
AggregatesOf(smps) ==
    AggregateSamplesFrom(EmptyMap, smps, 1, buildPrefixLookup(smps, repeaters, <<>>, now))

\* C8: the aggregation is order-independent: for every permutation of the
\* samples read, every tile gets the same heard and lost counts, observed
\* value, latest timestamp, max snr, max rssi and set of repeater identifiers.
C8_OrderIndependent ==
    pc = "done" =>
        \A order \in Permutations(1..Len(samples)) :
            LET aggs == AggregatesOf(Permuted(samples, order))
            IN /\ aggs = sampleAggregates
               /\ [id \in DOMAIN aggs |-> ResponseItem(id, aggs[id])] = aggregatedSamples

\* C8 witness: a tile aggregated from two samples of which the later stored
\* one is the older and has the lower snr.
C8_Witness ==
    /\ pc = "done"
    /\ \E j, k \in 1..Len(samples) :
          /\ j < k
          /\ Slice(samples[j].name, 0, 6) = Slice(samples[k].name, 0, 6)
          /\ samples[j].metadata.time > samples[k].metadata.time
          /\ samples[j].metadata.snr > samples[k].metadata.snr
          /\ samples[k].metadata.snr # Null
          /\ sampleAggregates[Slice(samples[j].name, 0, 6)].total = 2
          /\ sampleAggregates[Slice(samples[j].name, 0, 6)].lastTime = samples[j].metadata.time

\* C9: the functions are side-effect free on their inputs: from the fetch on
\* the samples and repeaters arrays and every object in them stay as read
\* (buildPrefixLookup, parsePath, disambiguatePath), and the lookup table stays
\* as built while the paths are disambiguated.
C9_InputsUnchanged ==
    [][/\ pc # "fetch" => (samples' = samples /\ repeaters' = repeaters)
       /\ LookupBuilt => lookup' = lookup]_vars

\* C9 witness: the response was built from a sample whose path was uppercased
\* by parsePath and rewritten by disambiguatePath, and from candidates the
\* sort reordered; the sample still holds its raw path.
C9_Witness ==
    /\ pc = "done"
    /\ \E k \in 1..Len(samples) :
          /\ resolvedPaths[k] # RawPath(k)
          /\ RawPath(k) = sampleRows[k].path
    /\ \E prefix \in DOMAIN lookup :
          /\ Len(lookup[prefix].candidates) >= 2
          /\ lookup[prefix].candidates[1].lastSeenTimestamp # repeatersByPrefix[prefix][1].time

\* C10: disambiguatePath is idempotent: resolving a resolved path again gives
\* the same path.
C10_Idempotent ==
    PathsResolved =>
        \A k \in 1..Len(samples) :
            disambiguatePath(lookup, resolvedPaths[k]) = resolvedPaths[k]

\* C10 witness: one path that the first resolution changed, and one whose
\* prefixes all resolve to themselves.
C10_Witness ==
    /\ pc = "done"
    /\ \E k \in 1..Len(samples) : resolvedPaths[k] # RawPath(k)
    /\ \E k \in 1..Len(samples) :
          /\ Len(RawPath(k)) >= 2
          /\ \A i \in 1..Len(RawPath(k)) : RawPath(k)[i] \in DOMAIN lookup
          /\ resolvedPaths[k] = RawPath(k)

\* buildPrefixLookup has analysed the samples: prefixToCandidates holds the
\* position counts.
SamplesAnalyzed == pc \in {"score", "results", "aggregate", "respond", "done"}

\* The effective path buildPrefixLookup walks for the k-th sample (GET
\* /get-nodes passes no localHash); empty for a sample it skips.
EffectivePath(k) ==
    IF parsePath(RawPath(k), <<>>) = NullParsed THEN <<>>
    ELSE parsePath(RawPath(k), <<>>).effective

\* The position-from-end of every element of a path of prefixes.
PositionsOf(path) == [i \in 1..Len(path) |-> getPositionFromIndex(i - 1, Len(path))]

\* C11: the element at 0-based index i of an effective path of length L has
\* position-from-end L - i, the last element position 1 and the first position
\* L (["A1","B2","C3"] gives [3,2,1]), and this is the position whose bucket
\* buildPrefixLookup counts for every candidate of the element's prefix.
C11_PositionFromEnd ==
    /\ PositionsOf(<< <<"A", "1">>, <<"B", "2">>, <<"C", "3">> >>) = <<3, 2, 1>>
    /\ SamplesAnalyzed =>
          \A k \in 1..Len(samples) :
              LET path == EffectivePath(k)
                  L == Len(path)
              IN \A i \in 0..(L - 1) :
                    /\ PositionsOf(path)[i + 1] = L - i
                    /\ i = L - 1 => PositionsOf(path)[i + 1] = 1
                    /\ i = 0 => PositionsOf(path)[i + 1] = L
                    /\ path[i + 1] \in DOMAIN prefixToCandidates =>
                          \A c \in 1..Len(prefixToCandidates[path[i + 1]]) :
                              prefixToCandidates[path[i + 1]][c]
                                  .positionCounts[Min(L - i, MAX_POSITIONS)] >= 1

\* C11 witness: a path of three elements whose middle element has a candidate
\* counted at position 2 only, and a path of one element counted at position 1.
C11_Witness ==
    /\ pc = "done"
    /\ \E k \in 1..Len(samples) :
          /\ Len(EffectivePath(k)) = 3
          /\ EffectivePath(k)[2] \in DOMAIN prefixToCandidates
          /\ EffectivePath(k)[3] \notin DOMAIN prefixToCandidates
          /\ prefixToCandidates[EffectivePath(k)[2]][1].positionCounts[2] = 1
    /\ \E k \in 1..Len(samples) :
          /\ Len(EffectivePath(k)) = 1
          /\ EffectivePath(k)[1] \in DOMAIN prefixToCandidates
          /\ prefixToCandidates[EffectivePath(k)[1]][1].positionCounts[1] = 1

\* The 2-character prefix of a local identifier: the first 2 characters after
\* a leading "0x" / "0X" marker if there is one, else the first 2 characters,
\* uppercased.
LocalPrefixOf(localHash) ==
    LET marked == Len(localHash) >= 2 /\ localHash[1] = "0" /\ localHash[2] \in {"x", "X"}
        body == IF marked THEN SubSeq(localHash, 3, Len(localHash)) ELSE localHash
    IN ToUpperCase(SubSeq(body, 1, Min(2, Len(body))))

\* C12: parsePath returns null for an empty, null or non-array path; otherwise
\* original is the input uppercased element by element, effective is original
\* without its last element exactly when a local identifier is supplied and
\* its 2-character prefix equals original's last element, and original in
\* every other case; at most one element is stripped and effectiveLength is
\* the length of effective.
C12_ParsePath ==
    call.fn = "parsePath" =>
        IF call.path.type # "array" \/ Len(call.path.items) = 0
        THEN call.result = NullParsed
        ELSE LET items == call.path.items
                 original == [k \in 1..Len(items) |-> ToUpperCase(items[k])]
                 strips == /\ call.localHash # <<>>
                           /\ LocalPrefixOf(call.localHash) = original[Len(original)]
             IN /\ call.result # NullParsed
                /\ call.result.original = original
                /\ strips => call.result.effective = SubSeq(original, 1, Len(original) - 1)
                /\ ~strips => call.result.effective = original
                /\ Len(original) - Len(call.result.effective) <= 1
                /\ call.result.effectiveLength = Len(call.result.effective)

\* C12 witness: parsePath(["b2", "a1", "A1"], "0XA1") strips one of the two
\* trailing elements that match the local prefix.
C12_Witness ==
    /\ call.fn = "parsePath"
    /\ call.path = [type |-> "array",
                    items |-> << <<"b", "2">>, <<"a", "1">>, <<"A", "1">> >>]
    /\ call.localHash = <<"0", "X", "A", "1">>
    /\ call.result # NullParsed
    /\ call.result.effective = << <<"B", "2">>, <<"A", "1">> >>
    /\ call.result.effectiveLength = 2

\* The samples of a batch whose geohash decodes.
Decodable(batch) == SelectSeq(batch, LAMBDA sample : ~DecodeThrows(sample.name))

\* C13: a sample whose geohash fails to decode contributes nothing and does
\* not end the build: the lookup of a batch is the lookup of the batch without
\* its undecodable samples, so these add no position, adjacency or geographic
\* evidence and the samples behind them are still processed.
C13_UndecodableSkipped ==
    call.fn = "buildPrefixLookup" =>
        call.result = buildPrefixLookup(Decodable(call.samples), call.repeaters,
                                        call.localHash, now)

\* C13 witness: a batch that starts with an undecodable sample whose path
\* names a candidate, followed by a sample that is counted for this candidate.
C13_Witness ==
    /\ call.fn = "buildPrefixLookup"
    /\ Len(call.samples) = 2
    /\ DecodeThrows(call.samples[1].name)
    /\ ~DecodeThrows(call.samples[2].name)
    /\ <<"A", "1">> \in DOMAIN call.result
    /\ ToUpperCase(call.samples[1].metadata.path[1]) = <<"A", "1">>
    /\ call.result[<<"A", "1">>].candidates[1].totalAppearances = 1

HexChars == {"0", "1", "2", "3", "4", "5", "6", "7", "8", "9", "A", "B", "C", "D", "E", "F"}

\* The string is a 2-character uppercase hex prefix.
IsHexPrefix(str) == Len(str) = 2 /\ \A k \in 1..Len(str) : str[k] \in HexChars

\* C14 as stated: a repeater whose prefix is missing, is not exactly 2
\* characters, or is not parseable as a 2-character hex prefix appears in no
\* candidate list, the remaining repeaters are built, and every key of the
\* lookup is a 2-character uppercase hex string equal to the prefix of each
\* candidate in its entry.
C14_NonHexExcluded ==
    LookupBuilt =>
        /\ \A k \in 1..Len(repeaters) :
              /\ ~IsHexPrefix(PrefixOf(repeaters[k])) => ~IsCandidate(repeaters[k])
              /\ (IsHexPrefix(PrefixOf(repeaters[k])) /\ IsKept(repeaters[k]))
                    => IsCandidate(repeaters[k])
        /\ \A key \in DOMAIN lookup :
              /\ IsHexPrefix(key)
              /\ \A c \in 1..Len(lookup[key].candidates) :
                    lookup[key].candidates[c].prefix = key

\* C14, amended: a repeater whose prefix is missing or is not exactly 2
\* characters appears in no candidate list (the characters are not checked),
\* the remaining repeaters are built, and every key of the lookup is a
\* 2-character uppercase string equal to the prefix of each candidate in its
\* entry.
C14_WrongLengthExcluded ==
    LookupBuilt =>
        /\ \A k \in 1..Len(repeaters) :
              /\ Len(PrefixOf(repeaters[k])) # 2 => ~IsCandidate(repeaters[k])
              /\ IsKept(repeaters[k]) => IsCandidate(repeaters[k])
        /\ \A key \in DOMAIN lookup :
              /\ Len(key) = 2
              /\ ToUpperCase(key) = key
              /\ Len(lookup[key].candidates) >= 1
              /\ \A c \in 1..Len(lookup[key].candidates) :
                    /\ lookup[key].candidates[c].prefix = key
                    /\ lookup[key].candidates[c].hash = key

\* C14 witness: the request read repeaters with an empty id, an id of 1 or 3
\* characters and the id "zz"; only "ZZ" is a key of the lookup.
C14_Witness ==
    /\ pc = "done"
    /\ \E k \in 1..Len(repeaters) : PrefixOf(repeaters[k]) = <<>>
    /\ \E k \in 1..Len(repeaters) : Len(PrefixOf(repeaters[k])) \in {1, 3}
    /\ \E k \in 1..Len(repeaters) : PrefixOf(repeaters[k]) = <<"Z", "Z">>
    /\ DOMAIN lookup = {<<"Z", "Z">>}

\* The evidence the bucket table gives a distance of d metres.
BucketEvidence(d) ==
    CASE d < 500 -> Scale
      [] 500 <= d /\ d < 2000 -> (Scale \div 10) * 8
      [] 2000 <= d /\ d < 5000 -> (Scale \div 10) * 5
      [] 5000 <= d /\ d < 10000 -> (Scale \div 10) * 3
      [] d >= 10000 -> Scale \div 10

\* The sample is processed by the build and its effective path ends with the
\* prefix: a position-1 observation of the prefix.
ObservedLast(sample, prefix, localHash) ==
    /\ ~DecodeThrows(sample.name)
    /\ parsePath(sample.metadata.path, localHash) # NullParsed
    /\ parsePath(sample.metadata.path, localHash).effectiveLength > 0
    /\ LET effective == parsePath(sample.metadata.path, localHash).effective
       IN effective[Len(effective)] = prefix

\* The bucket evidence of the position-1 observations of the candidate's
\* prefix in the samples k, k+1, ... of the batch.
RECURSIVE BucketEvidenceFrom(_, _, _, _)
BucketEvidenceFrom(batch, k, candidate, localHash) ==
    IF k > Len(batch) THEN 0
    ELSE (IF ObservedLast(batch[k], candidate.prefix, localHash)
          THEN BucketEvidence(
                   calculateDistance(posFromHash(batch[k].name)[1],
                                     posFromHash(batch[k].name)[2],
                                     candidate.latitude, candidate.longitude))
          ELSE 0)
         + BucketEvidenceFrom(batch, k + 1, candidate, localHash)

\* C15: the evidence added for one position-1 observation depends only on the
\* distance d between candidate and sample: 1.0 for d < 500 m, 0.8 for
\* 500 <= d < 2000, 0.5 for 2000 <= d < 5000, 0.3 for 5000 <= d < 10000 and
\* 0.1 from 10000 m on (400 m gives 1.0, 1900 m 0.8, 4000 m 0.5, 9000 m 0.3,
\* 15000 m 0.1); a candidate's evidence is the sum over its observations.
C15_GeoBuckets ==
    /\ <<GeoEvidence(400), GeoEvidence(1900), GeoEvidence(4000), GeoEvidence(9000),
          GeoEvidence(15000)>>
          = <<Scale, (Scale \div 10) * 8, (Scale \div 10) * 5, (Scale \div 10) * 3,
              Scale \div 10>>
    /\ call.fn = "buildPrefixLookup" =>
          \A key \in DOMAIN call.result :
              \A c \in 1..Len(call.result[key].candidates) :
                  LET candidate == call.result[key].candidates[c]
                  IN Len(call.result[key].candidates) >= 2 =>
                        candidate.srcGeoEvidenceScore
                            = BucketEvidenceFrom(call.samples, 1, candidate, call.localHash)

\* C15 witness: one sample with the path ["a1"] and two candidates of "A1",
\* one exactly 2000 m from the sample (evidence 0.5) and one 9005 m from it
\* (evidence 0.3).
C15_Witness ==
    /\ call.fn = "buildPrefixLookup"
    /\ Len(call.samples) = 1
    /\ <<"A", "1">> \in DOMAIN call.result
    /\ Len(call.result[<<"A", "1">>].candidates) = 2
    /\ \E c, d \in 1..2 :
          LET near == call.result[<<"A", "1">>].candidates[c]
              far == call.result[<<"A", "1">>].candidates[d]
              src == posFromHash(call.samples[1].name)
          IN /\ calculateDistance(src[1], src[2], near.latitude, near.longitude) = 2000
             /\ near.srcGeoEvidenceScore = (Scale \div 10) * 5
             /\ near.srcGeoEvidenceCount = 1
             /\ calculateDistance(src[1], src[2], far.latitude, far.longitude) = 9005
             /\ far.srcGeoEvidenceScore = (Scale \div 10) * 3

SamplesOfTile(id) == {k \in 1..Len(samples) : SubSeq(samples[k].name, 1, 6) = id}

\* The sum of heard + lost over the given tiles of the response.
RECURSIVE CountedIn(_)
CountedIn(ids) ==
    IF ids = {} THEN 0
    ELSE LET id == CHOOSE x \in ids : TRUE
         IN aggregatedSamples[id].heard + aggregatedSamples[id].lost
            + CountedIn(ids \ {id})

\* C18: every sample is counted in exactly one tile, the one whose id is the
\* first 6 characters of its geohash; for every tile heard is the number of
\* its samples with a non-empty resolved path and lost is total - heard, so
\* both are >= 0, heard + lost is the number of samples of the tile, and the
\* sum of heard + lost over all tiles is the number of samples read.
C18_TileCounts ==
    pc = "done" =>
        /\ DOMAIN aggregatedSamples = {SubSeq(samples[k].name, 1, 6) : k \in 1..Len(samples)}
        /\ \A id \in DOMAIN aggregatedSamples :
              LET item == aggregatedSamples[id]
              IN /\ item.id = id
                 /\ Len(id) = 6
                 /\ sampleAggregates[id].total = Cardinality(SamplesOfTile(id))
                 /\ item.heard
                       = Cardinality({k \in SamplesOfTile(id) : Len(resolvedPaths[k]) > 0})
                 /\ item.lost = sampleAggregates[id].total - item.heard
                 /\ 0 <= item.heard
                 /\ 0 <= item.lost
                 /\ item.heard + item.lost = Cardinality(SamplesOfTile(id))
        /\ CountedIn(DOMAIN aggregatedSamples) = Len(samples)

\* C18 witness: a response with a tile of two heard samples, one of them
\* stored as not observed, and a tile whose only sample was lost.
C18_Witness ==
    /\ pc = "done"
    /\ \E id \in DOMAIN aggregatedSamples :
          /\ aggregatedSamples[id].heard = 2
          /\ aggregatedSamples[id].lost = 0
          /\ \E k \in SamplesOfTile(id) : samples[k].metadata.observed = "false"
    /\ \E id \in DOMAIN aggregatedSamples :
          /\ aggregatedSamples[id].heard = 0
          /\ aggregatedSamples[id].lost = 1

\* C19: a candidate takes source-geographic evidence only for occurrences of
\* its prefix at position 1 while two or more candidates share the prefix:
\* the sole candidate of a prefix has srcGeoEvidenceCount = 0 and no boost,
\* and every candidate has srcGeoEvidenceCount <= positionCounts[0].
C19_EvidenceOnlyAtLastHop ==
    SamplesAnalyzed =>
        \A prefix \in DOMAIN prefixToCandidates :
            \A c \in 1..Len(prefixToCandidates[prefix]) :
                LET candidate == prefixToCandidates[prefix][c]
                    located == TruthyCoordinate(candidate.latitude)
                               /\ TruthyCoordinate(candidate.longitude)
                IN /\ Len(prefixToCandidates[prefix]) = 1 =>
                        /\ candidate.srcGeoEvidenceCount = 0
                        /\ candidate.srcGeoEvidenceScore = 0
                        /\ SrcGeoBoost(candidate) = 0
                        /\ LookupBuilt =>
                              candidate.combinedScore
                                = (candidate.positionScore * WeightPosition
                                   + candidate.cooccurrenceScore * WeightCooccurrence
                                   + candidate.geographicScore * WeightGeographic
                                   + candidate.recencyScore * WeightRecency) \div 100
                   /\ candidate.srcGeoEvidenceCount <= candidate.positionCounts[1]
                   /\ (Len(prefixToCandidates[prefix]) >= 2 /\ located) =>
                        candidate.srcGeoEvidenceCount = candidate.positionCounts[1]

\* C19 witness: a sole candidate seen at position 1 without evidence, and a
\* candidate of a shared prefix seen at positions 1 and 2 with evidence for
\* position 1 only.
C19_Witness ==
    /\ pc = "done"
    /\ \E prefix \in DOMAIN prefixToCandidates :
          /\ Len(prefixToCandidates[prefix]) = 1
          /\ prefixToCandidates[prefix][1].positionCounts[1] >= 1
          /\ prefixToCandidates[prefix][1].srcGeoEvidenceCount = 0
    /\ \E prefix \in DOMAIN prefixToCandidates :
          /\ Len(prefixToCandidates[prefix]) = 2
          /\ prefixToCandidates[prefix][1].positionCounts[1] = 1
          /\ prefixToCandidates[prefix][1].positionCounts[2] = 1
          /\ prefixToCandidates[prefix][1].srcGeoEvidenceCount = 1

\* The effective path of a sample the build processes; empty for a sample it
\* skips.
ProcessedPath(sample, localHash) ==
    IF DecodeThrows(sample.name) THEN <<>>
    ELSE IF parsePath(sample.metadata.path, localHash) = NullParsed THEN <<>>
    ELSE parsePath(sample.metadata.path, localHash).effective

\* The number of occurrences of the prefix at a position-from-end within
\* lowest..highest in the effective paths of the samples k, k+1, ...
RECURSIVE OccurrencesFrom(_, _, _, _, _, _)
OccurrencesFrom(batch, k, localHash, prefix, lowest, highest) ==
    IF k > Len(batch) THEN 0
    ELSE LET path == ProcessedPath(batch[k], localHash)
         IN Cardinality({i \in 1..Len(path) :
                            /\ path[i] = prefix
                            /\ Len(path) - i + 1 >= lowest
                            /\ Len(path) - i + 1 <= highest})
            + OccurrencesFrom(batch, k + 1, localHash, prefix, lowest, highest)

\* The length of the longest path of the batch.
LongestPath(batch) ==
    LET lengths == {Len(batch[k].metadata.path) : k \in 1..Len(batch)} \cup {0}
    IN CHOOSE n \in lengths : \A m \in lengths : n >= m

\* C20: after buildPrefixLookup, positionCounts[k] of every candidate is, for
\* k in 0..3, the number of occurrences of its prefix at position k+1 over the
\* effective paths of the processed samples, positionCounts[4] the number of
\* occurrences at position 5 or higher, and totalAppearances the sum of the
\* five buckets.
C20_PositionCounts ==
    call.fn = "buildPrefixLookup" =>
        \A key \in DOMAIN call.result :
            \A c \in 1..Len(call.result[key].candidates) :
                LET candidate == call.result[key].candidates[c]
                IN /\ \A k \in 0..3 :
                         candidate.positionCounts[k + 1]
                            = OccurrencesFrom(call.samples, 1, call.localHash,
                                              candidate.prefix, k + 1, k + 1)
                   /\ candidate.positionCounts[5]
                         = OccurrencesFrom(call.samples, 1, call.localHash,
                                           candidate.prefix, 5, LongestPath(call.samples))
                   /\ candidate.totalAppearances
                         = candidate.positionCounts[1] + candidate.positionCounts[2]
                           + candidate.positionCounts[3] + candidate.positionCounts[4]
                           + candidate.positionCounts[5]

\* C20 witness: two candidates of "A1" built from the 7-hop path, effective
\* without its last hop, and the path ["a1"]: two occurrences at position 1
\* and one at position 6, in the last bucket.
C20_Witness ==
    /\ call.fn = "buildPrefixLookup"
    /\ call.localHash # <<>>
    /\ \E k \in 1..Len(call.samples) : Len(call.samples[k].metadata.path) = 7
    /\ <<"A", "1">> \in DOMAIN call.result
    /\ Len(call.result[<<"A", "1">>].candidates) = 2
    /\ call.result[<<"A", "1">>].candidates[2].positionCounts = <<2, 0, 0, 0, 1>>
    /\ call.result[<<"A", "1">>].candidates[2].totalAppearances = 3

-----------------------------------------------------------------------------
(* C17: one fresh lookup per GET /get-nodes request                        *)

Finished(r) == requests[r].pc = "done"

\* The lookup built from what the request itself has read.
LookupFromOwnReads(r) ==
    buildPrefixLookup(requests[r].samples, requests[r].repeaters, <<>>, now)

\* The samples a request has read that lie in the tile.
OwnSamplesOfTile(r, id) ==
    {k \in 1..Len(requests[r].samples) : Slice(requests[r].samples[k].name, 0, 6) = id}

\* The response of a finished request is the one its own reads give: its
\* lookup is the one built from the samples and repeaters it has read, every
\* rptr list and every tile's repeater set and heard count come from the
\* paths it has read, disambiguated with that lookup.
ResponseFromOwnReads(r) ==
    LET q == requests[r]
        own == LookupFromOwnReads(r)
    IN /\ q.prefixLookup = own
       /\ Len(q.response.coverage) = Len(q.coverage)
       /\ \A k \in 1..Len(q.coverage) :
             /\ q.response.coverage[k].id = q.coverage[k].hash
             /\ q.response.coverage[k].rptr =
                   IF Len(q.coverage[k].hitRepeaters) > 0
                   THEN disambiguatePath(own, q.coverage[k].hitRepeaters)
                   ELSE <<>>
       /\ DOMAIN q.response.samples =
             {Slice(q.samples[k].name, 0, 6) : k \in 1..Len(q.samples)}
       /\ \A id \in DOMAIN q.response.samples :
             /\ q.response.samples[id].path =
                   UNION {Elements(disambiguatePath(own, q.samples[k].metadata.path)) :
                             k \in OwnSamplesOfTile(r, id)}
             /\ q.response.samples[id].heard =
                   Cardinality({k \in OwnSamplesOfTile(r, id) :
                                   Len(q.samples[k].metadata.path) > 0})
             /\ q.response.samples[id].heard + q.response.samples[id].lost =
                   Cardinality(OwnSamplesOfTile(r, id))
       /\ Len(q.response.repeaters) = Len(q.repeaters)
       /\ \A k \in 1..Len(q.repeaters) :
             q.response.repeaters[k].id = q.repeaters[k].metadata.id

\* Two finished requests that have read the same rows have the same lookup
\* and the same response.
SameReadsSameResponse(r, other) ==
    (/\ requests[r].coverage = requests[other].coverage
     /\ requests[r].samples = requests[other].samples
     /\ requests[r].repeaters = requests[other].repeaters)
    => (/\ requests[r].prefixLookup = requests[other].prefixLookup
        /\ requests[r].response = requests[other].response)

-----------------------------------------------------------------------------
(* C21: adjacency observations                                             *)

\* The sum of the values of a Map of counters.
RECURSIVE SumOfCounts(_)
SumOfCounts(counts) ==
    IF DOMAIN counts = {} THEN 0
    ELSE LET key == CHOOSE k \in DOMAIN counts : TRUE
         IN counts[key] + SumOfCounts([k \in (DOMAIN counts) \ {key} |-> counts[k]])

\* The neighbours of the element at the 1-based index i of a path: none in a
\* path of one element, one at either end of a longer path, two inside.
NeighboursAt(path, i) ==
    IF Len(path) = 1 THEN 0
    ELSE IF i = 1 \/ i = Len(path) THEN 1
    ELSE 2

\* The neighbours of all occurrences of the prefix in the effective paths of
\* the samples k, k+1, ...
RECURSIVE NeighboursFrom(_, _, _, _)
NeighboursFrom(batch, k, localHash, prefix) ==
    IF k > Len(batch) THEN 0
    ELSE LET path == ProcessedPath(batch[k], localHash)
             at == [i \in 1..Len(path) |-> IF path[i] = prefix THEN NeighboursAt(path, i) ELSE 0]
         IN SumOfCounts(at) + NeighboursFrom(batch, k + 1, localHash, prefix)

\* The occurrences of the neighbour right before or right after an occurrence
\* of the prefix in the effective paths of the samples k, k+1, ...
RECURSIVE NeighbourOccurrencesFrom(_, _, _, _, _)
NeighbourOccurrencesFrom(batch, k, localHash, prefix, neighbour) ==
    IF k > Len(batch) THEN 0
    ELSE LET path == ProcessedPath(batch[k], localHash)
         IN Cardinality({i \in 2..Len(path) : path[i] = prefix /\ path[i - 1] = neighbour})
            + Cardinality({i \in 1..(Len(path) - 1) : path[i] = prefix /\ path[i + 1] = neighbour})
            + NeighbourOccurrencesFrom(batch, k + 1, localHash, prefix, neighbour)

\* C21: after buildPrefixLookup, totalAdjacentObservations of every candidate
\* is the sum of its adjacentPrefixCounts, every counter is the number of
\* times that prefix stands right before or right after an occurrence of the
\* candidate's prefix, the total is the number of neighbours of the
\* occurrences (0 in a path of one element, 1 at an end, 2 inside), and it is
\* at most twice totalAppearances.
C21_AdjacencyCounts ==
    call.fn = "buildPrefixLookup" =>
        \A key \in DOMAIN call.result :
            \A c \in 1..Len(call.result[key].candidates) :
                LET candidate == call.result[key].candidates[c]
                IN /\ candidate.totalAdjacentObservations
                         = SumOfCounts(candidate.adjacentPrefixCounts)
                   /\ \A neighbour \in DOMAIN candidate.adjacentPrefixCounts :
                         candidate.adjacentPrefixCounts[neighbour]
                            = NeighbourOccurrencesFrom(call.samples, 1, call.localHash,
                                                       candidate.prefix, neighbour)
                   /\ candidate.totalAdjacentObservations
                         = NeighboursFrom(call.samples, 1, call.localHash, candidate.prefix)
                   /\ candidate.totalAdjacentObservations <= 2 * candidate.totalAppearances

\* C21 witness: a candidate of "A1" built from the 7-hop path (an occurrence
\* at the start and one inside, both followed by "B2") and the path ["a1"]:
\* three appearances, three neighbours, "B2" counted twice.
C21_Witness ==
    /\ call.fn = "buildPrefixLookup"
    /\ call.localHash = <<>>
    /\ <<"A", "1">> \in DOMAIN call.result
    /\ call.result[<<"A", "1">>].candidates[1].totalAppearances = 3
    /\ call.result[<<"A", "1">>].candidates[1].totalAdjacentObservations = 3
    /\ call.result[<<"A", "1">>].candidates[1].adjacentPrefixCounts[<<"B", "2">>] = 2
    /\ call.result[<<"A", "1">>].candidates[1].adjacentPrefixCounts[<<"E", "5">>] = 1

-----------------------------------------------------------------------------
(* C22: the combined score and the source-geographic boost                 *)

\* The candidates of all entries of a lookup.
CandidatesOfLookup(lk) ==
    UNION {Elements(lk[key].candidates) : key \in DOMAIN lk}

\* avgEvidence * min(evidenceCount / 50, 1) * 0.3
ExpectedBoost(candidate) ==
    IF candidate.srcGeoEvidenceCount = 0 THEN 0
    ELSE LET avgEvidence == candidate.srcGeoEvidenceScore \div candidate.srcGeoEvidenceCount
             weight == Min((candidate.srcGeoEvidenceCount * Scale) \div 50, Scale)
         IN (((avgEvidence * weight) \div Scale) * 3) \div 10

\* 0.15 * position + 0.15 * co-occurrence + 0.40 * geographic + 0.30 * recency
ExpectedWeightedSum(candidate) ==
    (15 * candidate.positionScore + 15 * candidate.cooccurrenceScore
     + 40 * candidate.geographicScore + 30 * candidate.recencyScore) \div 100

\* The combinedScore of every candidate of a built lookup is the weighted sum
\* plus the boost, with no clamp.
CombinedScoreIsSumPlusBoost ==
    call.fn = "buildPrefixLookup" =>
        \A candidate \in CandidatesOfLookup(call.result) :
            candidate.combinedScore
               = ExpectedWeightedSum(candidate) + ExpectedBoost(candidate)

\* There are repeaters and samples, among those passed to buildPrefixLookup,
\* that give a candidate a combinedScore above 1.0.
SomeCombinedScoreAboveOne ==
    \E n \in 0..MaxCopies, S \in Selections(HeardRepeaterTable, MaxCallRepeaters) :
        \E candidate \in CandidatesOfLookup(
                             buildPrefixLookup([i \in 1..n |-> SampleKey(HeardSample)],
                                               RepeatersGetAll(RowsAt(HeardRepeaterTable, S, 1)),
                                               <<>>, now)) :
            candidate.combinedScore > Scale

\* C22 as claimed: combinedScore is the weighted sum plus the unclamped boost,
\* and there are repeaters and samples for which buildPrefixLookup yields a
\* candidate whose combinedScore exceeds 1.0.
C22_ScoreExceedsOne ==
    /\ CombinedScoreIsSumPlusBoost
    /\ SomeCombinedScoreAboveOne

\* C22 as amended: combinedScore is the weighted sum plus the unclamped boost;
\* the geographic score of every candidate is the default 0.2, so the
\* weighted sum is at most 0.68, the boost at most 0.3 and combinedScore at
\* most 0.98: no candidate of a built lookup has a combinedScore above 1.0.
C22_ScoreIsSumPlusBoost ==
    /\ CombinedScoreIsSumPlusBoost
    /\ call.fn = "buildPrefixLookup" =>
          \A candidate \in CandidatesOfLookup(call.result) :
              /\ candidate.geographicScore = Scale \div 5
              /\ ExpectedWeightedSum(candidate) <= (68 * Scale) \div 100
              /\ ExpectedBoost(candidate) <= (3 * Scale) \div 10
              /\ candidate.combinedScore <= (98 * Scale) \div 100

\* C22 witness: 50 samples heard last through "a1" next to them, and two
\* candidates of "A1"; the one at 401 m, heard in this second, has every
\* score at 1.0, evidence 1.0 from each of the 50 samples, the full boost of
\* 0.3 and the combinedScore 0.98.
C22_Witness ==
    /\ call.fn = "buildPrefixLookup"
    /\ Len(call.samples) = 50
    /\ \E candidate \in CandidatesOfLookup(call.result) :
          /\ candidate.srcGeoEvidenceCount = 50
          /\ candidate.srcGeoEvidenceScore = 50 * Scale
          /\ candidate.positionScore = Scale
          /\ candidate.cooccurrenceScore = Scale
          /\ candidate.recencyScore = Scale
          /\ ExpectedBoost(candidate) = (3 * Scale) \div 10
          /\ candidate.combinedScore = (98 * Scale) \div 100

-----------------------------------------------------------------------------
(* C23: the order of the candidates of a prefix                            *)

\* The place in the repeaters argument of the repeater a candidate was made
\* from (the repeaters of one call differ in their coordinates).
InputIndex(reps, candidate) ==
    CHOOSE k \in 1..Len(reps) :
        /\ PrefixOf(reps[k]) = candidate.prefix
        /\ reps[k].metadata.lat = candidate.latitude
        /\ reps[k].metadata.lon = candidate.longitude

\* The repeaters of the argument that become candidates of the prefix.
KeptRepeaters(reps, prefix, nowTs) ==
    {k \in 1..Len(reps) :
        /\ PrefixOf(reps[k]) = prefix
        /\ ~isCandidateTooOld(LastSeenOf(reps[k]), nowTs)}

\* C23: the result of buildPrefixLookup is fixed by its arguments and now:
\* the candidates of a prefix are its kept repeaters, one each, in the one
\* order that puts a higher combinedScore first and, among equal scores, the
\* repeater that comes first in the input list (stable sort on tie);
\* bestMatch is the first candidate's hash, and the confidence is taken from
\* the first two scores of this order (at least their relative gap).
C23_StableOrder ==
    call.fn = "buildPrefixLookup" =>
        \A key \in DOMAIN call.result :
            LET candidates == call.result[key].candidates
                place == [i \in 1..Len(candidates) |-> InputIndex(call.repeaters, candidates[i])]
            IN /\ {place[i] : i \in 1..Len(candidates)} = KeptRepeaters(call.repeaters, key, now)
               /\ Len(candidates) = Cardinality(KeptRepeaters(call.repeaters, key, now))
               /\ \A i, j \in 1..Len(candidates) :
                     i < j =>
                        \/ candidates[i].combinedScore > candidates[j].combinedScore
                        \/ /\ candidates[i].combinedScore = candidates[j].combinedScore
                           /\ place[i] < place[j]
               /\ call.result[key].bestMatch = candidates[1].hash
               /\ Len(candidates) > 1 /\ candidates[1].combinedScore > 0 =>
                     call.result[key].confidence
                        >= ((candidates[1].combinedScore - candidates[2].combinedScore) * Scale)
                               \div candidates[1].combinedScore

\* C23 witness: two candidates of "A1", at 500 m and at 1900 m of a sample
\* heard last through "a1": both get the evidence 0.8 and the same
\* combinedScore, and they stand in the order of the input list.
C23_Witness ==
    /\ call.fn = "buildPrefixLookup"
    /\ <<"A", "1">> \in DOMAIN call.result
    /\ Len(call.result[<<"A", "1">>].candidates) = 2
    /\ call.result[<<"A", "1">>].candidates[1].srcGeoEvidenceCount > 0
    /\ call.result[<<"A", "1">>].candidates[1].combinedScore
          = call.result[<<"A", "1">>].candidates[2].combinedScore
    /\ call.result[<<"A", "1">>].candidates[1].latitude
          # call.result[<<"A", "1">>].candidates[2].latitude
    /\ InputIndex(call.repeaters, call.result[<<"A", "1">>].candidates[1]) = 1
    /\ InputIndex(call.repeaters, call.result[<<"A", "1">>].candidates[2]) = 2


-----------------------------------------------------------------------------
(* POST /consolidate                                                         *)

\* The keys of the samples of the tiles whose mergeCoverage has returned in
\* the request being handled.
MergedKeysOfRun ==
    IF requests.pc = "idle" THEN {}
    ELSE UNION {{requests.hashToSamples[g].samples[k].key :
                    k \in 1..Len(requests.hashToSamples[g].samples)} :
                g \in {g \in 1..Len(requests.hashToSamples) :
                          requests.hashToSamples[g].geohash \in Elements(requests.mergedKeys)}}

\* How many mergeCoverage calls that returned were given the sample.
TimesMerged(key) == Cardinality({k \in 1..Len(db.merged) : db.merged[k] = key})

StoredKeys == {row.geohash : row \in db.samples}

RunEnded == requests.pc = "done"

\* C24: after a /consolidate run has ended, every sample merged into its
\* coverage tile is archived and gone from the samples table, and no sample
\* has been merged into coverage twice.
C24_AllOrNothingPerSample ==
    /\ RunEnded =>
          \A key \in MergedKeysOfRun :
              key \in Elements(db.archive) /\ key \notin StoredKeys
    /\ \A key \in Elements(db.merged) : TimesMerged(key) = 1

\* C24: what the handler does give: a run without a failed archive insert
\* and without a failed delete leaves every merged sample archived and
\* removed.
C24_AllOrNothingWithoutFailure ==
    (RunEnded /\ requests.result.archive_fail = 0 /\ requests.result.delete_fail = 0) =>
        \A key \in MergedKeysOfRun :
            key \in Elements(db.archive) /\ key \notin StoredKeys

\* A second run has ended, and a sample that the first run merged and failed
\* to archive has been merged into its coverage tile again.
C24_Witness ==
    /\ RunEnded
    /\ writers.started = 2
    /\ requests.before.archive = <<>>
    /\ \E key \in MergedKeysOfRun : TimesMerged(key) = 2


\* How many archive rows a table state holds for the sample.
TimesArchived(tables, key) ==
    Cardinality({k \in 1..Len(tables.archive) : tables.archive[k] = key})

\* The keys of the samples of the tiles whose mergeCoverage has thrown in the
\* request being handled.
FailedKeysOfRun ==
    IF requests.pc = "idle" THEN {}
    ELSE UNION {{requests.hashToSamples[g].samples[k].key :
                    k \in 1..Len(requests.hashToSamples[g].samples)} :
                g \in {g \in 1..Len(requests.hashToSamples) :
                          /\ g < requests.g
                          /\ requests.hashToSamples[g].geohash
                                 \notin Elements(requests.mergedKeys)}}

\* C25: a sample is deleted only after the mergeCoverage of its tile and its
\* own archive insert have succeeded in the same run; the samples of a tile
\* whose merge failed are neither archived nor deleted; a sample whose archive
\* insert failed is not deleted; and the counters of the response satisfy
\* merged_ok + merged_fail = coverage_entites_to_update,
\* delete_ok + delete_fail = archive_ok and delete_skip = archive_fail.
C25_MergeArchiveDelete ==
    requests.pc # "idle" =>
        /\ \A row \in requests.before.samples :
              row.geohash \notin StoredKeys =>
                  /\ row.geohash \in MergedKeysOfRun
                  /\ TimesArchived(db, row.geohash)
                        = TimesArchived(requests.before, row.geohash) + 1
        /\ \A key \in FailedKeysOfRun :
              /\ key \in StoredKeys
              /\ TimesArchived(db, key) = TimesArchived(requests.before, key)
        /\ RunEnded =>
              /\ requests.result.merged_ok + requests.result.merged_fail
                    = requests.result.coverage_entites_to_update
              /\ requests.result.delete_ok + requests.result.delete_fail
                    = requests.result.archive_ok
              /\ requests.result.delete_skip = requests.result.archive_fail

\* A run has ended in which a merge failed, an archive insert failed, a delete
\* failed and a delete succeeded.
C25_Witness ==
    /\ RunEnded
    /\ requests.result.merged_fail > 0
    /\ requests.result.archive_fail > 0
    /\ requests.result.delete_fail > 0
    /\ requests.result.delete_ok > 0
    /\ StoredKeys # {row.geohash : row \in requests.before.samples}


-----------------------------------------------------------------------------
(* POST /put-sample: the stored sample                                       *)

\* The handler h takes the step of its upsert.
UpsertStep(h) == requests[h].pc = "upsert" /\ requests'[h].pc # "upsert"

\* The metadata of the request of a handler alone.
RequestAlone(q) ==
    LET normalizedPath == [k \in 1..Len(q.body.path) |-> ToLowerCase(q.body.path[k])]
    IN [time |-> q.time, path |-> normalizedPath, snr |-> q.body.snr, rssi |-> q.body.rssi,
        observed |-> ObservedOr(q.body.observed, normalizedPath)]

\* The row of a geohash in a samples table that has one.
StoredSample(table, geohash) == CHOOSE row \in table : row.geohash = geohash

\* The row is the merge of the old row and the metadata of a request: time
\* the max, snr and rssi the max of the defined values, observed the OR, path
\* the union.
IsMergeOf(row, old, new) ==
    /\ row.time = Max(old.time, new.time)
    /\ row.snr = DefinedOrMax(new.snr, old.snr)
    /\ row.rssi = DefinedOrMax(new.rssi, old.rssi)
    /\ row.observed = DefinedOrOr(new.observed, ObservedOr(old.observed, old.path))
    /\ Elements(row.path) = Elements(new.path) \cup Elements(old.path)

\* The path, snr, rssi and observed of the row are those of the request.
IsRequestAlone(row, new) ==
    /\ row.path = new.path
    /\ row.snr = new.snr
    /\ row.rssi = new.rssi
    /\ row.observed = new.observed

\* The handler h has read the row that is stored when its upsert runs.
ReadIsCurrent(h) ==
    /\ requests[h].existing # {}
    /\ requests[h].existing = ExistingSample(db.samples, requests[h].geohash)

\* C26: an upsert of POST /put-sample onto a stored sample of 1 day or more
\* stores the path, snr, rssi and observed of the request alone; onto a
\* younger one it stores the merge.
C26_MergeOnlyIfRecent ==
    [][\A h \in Handlers :
          (UpsertStep(h) /\ ReadIsCurrent(h)) =>
              LET q == requests[h]
                  old == StoredSample(db.samples, q.geohash)
                  row == StoredSample(db'.samples, q.geohash)
              IN IF q.time - old.time >= MillisPerDay
                 THEN IsRequestAlone(row, RequestAlone(q))
                 ELSE IsMergeOf(row, old, RequestAlone(q))]_vars

\* C26: what the handler and the upsert give together: the stored row is the
\* merge whatever the age of the stored sample.
C26_MergeWhateverAge ==
    [][\A h \in Handlers :
          (UpsertStep(h) /\ ReadIsCurrent(h)) =>
              IsMergeOf(StoredSample(db'.samples, requests[h].geohash),
                        StoredSample(db.samples, requests[h].geohash),
                        RequestAlone(requests[h]))]_vars

\* A handler has upserted a request without a path and not observed onto
\* the sample of one day, and the row has kept the path of that sample.
C26_Witness ==
    \E h \in Handlers :
        /\ requests[h].pc = "done"
        /\ requests[h].existing # {}
        /\ requests[h].time - (CHOOSE row \in requests[h].existing : TRUE).time >= MillisPerDay
        /\ requests[h].body.path = <<>>
        /\ StoredSample(db.samples, requests[h].geohash).path = << <<"a", "1">> >>
        /\ StoredSample(db.samples, requests[h].geohash).observed = "true"


\* The row has all that the old row has: its time or a later one, its snr and
\* rssi or greater ones, observed if the old row is, every prefix of its path.
Grown(old, row) ==
    /\ row.time >= old.time
    /\ old.snr # Null => (row.snr # Null /\ row.snr >= old.snr)
    /\ old.rssi # Null => (row.rssi # Null /\ row.rssi >= old.rssi)
    /\ old.observed = "true" => row.observed = "true"
    /\ Elements(old.path) \subseteq Elements(row.path)

\* C30: whatever step the POST /put-sample handlers take, and in whatever
\* order their reads and upserts interleave, every stored sample stays stored
\* and only grows: time, snr and rssi do not decrease, a stored snr or rssi
\* does not become null, observed does not go back to false, and no prefix
\* leaves the path.
C30_StoredSampleOnlyGrows ==
    [][\A old \in db.samples :
          /\ ExistingSample(db'.samples, old.geohash) # {}
          /\ Grown(old, StoredSample(db'.samples, old.geohash))]_vars

\* Two handlers have both read that 9q9khq7q has no row and both have
\* upserted it, the one observed and the other one not, and the row is
\* observed.
C30_Witness ==
    /\ \E h1, h2 \in Handlers :
          /\ h1 # h2
          /\ requests[h1].pc = "done" /\ requests[h2].pc = "done"
          /\ requests[h1].geohash = requests[h2].geohash
          /\ requests[h1].existing = {} /\ requests[h2].existing = {}
          /\ requests[h1].body.observed = "true" /\ requests[h2].body.observed = "false"
          /\ StoredSample(db.samples, requests[h1].geohash).observed = "true"


-----------------------------------------------------------------------------
(* POST /put-sample: the counters of the driver                              *)

\* The hit and miss counters of a driver in a tile; 0 without a row.
HitOf(table, name, geohash) ==
    IF DriverRow(table, name, geohash) = {} THEN 0
    ELSE (CHOOSE row \in DriverRow(table, name, geohash) : TRUE).hit

MissOf(table, name, geohash) ==
    IF DriverRow(table, name, geohash) = {} THEN 0
    ELSE (CHOOSE row \in DriverRow(table, name, geohash) : TRUE).miss

\* The request of the handler is observed and carries the name of a driver.
ObservedWithDriver(q) ==
    /\ q.pc # "idle"
    /\ q.body.drivers # ""
    /\ (q.body.observed = "true" \/ (q.body.observed = "null" /\ Len(q.body.path) > 0))

\* The samples of the tile and the driver within the window of the request
\* of the handler that are not observed.
RecentUnobserved(q) ==
    {s \in db.samples :
        /\ SubSeq(s.geohash, 1, 6) = q.coverageGeohash
        /\ s.drivers = q.metadata.drivers
        /\ s.time >= q.metadata.time - TimeWindowMs
        /\ s.time <= q.metadata.time + TimeWindowMs
        /\ ObservedOr(s.observed, s.path) = "false"}

\* Those that are not observed or have an empty path.
RecentUnobservedOrPathless(q) ==
    {s \in db.samples :
        /\ SubSeq(s.geohash, 1, 6) = q.coverageGeohash
        /\ s.drivers = q.metadata.drivers
        /\ s.time >= q.metadata.time - TimeWindowMs
        /\ s.time <= q.metadata.time + TimeWindowMs
        /\ (ObservedOr(s.observed, s.path) = "false" \/ Len(s.path) = 0)}

\* A handler whose request is observed and carries a driver has added one
\* hit when it is done and none or one before.
OneHitPerRequest ==
    \A h \in Handlers :
        ObservedWithDriver(requests[h]) =>
            /\ requests[h].hits <= 1
            /\ requests[h].pc = "done" => requests[h].hits = 1

CountersNotNegative == \A row \in db.drivers : row.miss >= 0 /\ row.hit >= 0

\* A step of a handler changes the counters of its driver and tile only: the
\* hit by the hit it adds, and the miss by one down from a miss > 0 together
\* with the hit, or not at all.
CountersStep(h) ==
    LET q == requests[h]
        name == q.metadata.drivers
        tile == q.coverageGeohash
    IN (q.pc \in {"check", "convert", "incrementHit"} /\ requests'[h] # q) =>
          /\ HitOf(db'.drivers, name, tile)
                = HitOf(db.drivers, name, tile) + (requests'[h].hits - q.hits)
          /\ \/ MissOf(db'.drivers, name, tile) = MissOf(db.drivers, name, tile)
             \/ /\ q.pc = "convert"
                /\ requests'[h].hits = q.hits + 1
                /\ MissOf(db.drivers, name, tile) > 0
                /\ MissOf(db'.drivers, name, tile) = MissOf(db.drivers, name, tile) - 1

\* C27: every observed request with a driver adds exactly one hit to the
\* driver's row of the tile, by the conversion of a miss or by incrementHit
\* and never by both; a handler goes on to convert a miss only when a sample
\* of the driver in the tile within the 5 minute window is not observed, and
\* converts it only from a miss > 0; no counter is ever negative.
C27_DriverCounters ==
    /\ [](OneHitPerRequest /\ CountersNotNegative)
    /\ [][\A h \in Handlers :
             /\ CountersStep(h)
             /\ (requests[h].pc = "check" /\ requests'[h].pc = "convert")
                   => RecentUnobserved(requests[h]) # {}]_vars

\* C27: the same with the samples that the check query counts: those not
\* observed and those with an empty path, observed or not.
C27_DriverCountersAsCounted ==
    /\ [](OneHitPerRequest /\ CountersNotNegative)
    /\ [][\A h \in Handlers :
             /\ CountersStep(h)
             /\ (requests[h].pc = "check" /\ requests'[h].pc = "convert")
                   => RecentUnobservedOrPathless(requests[h]) # {}]_vars

\* A request observed with an empty path has converted a miss of its driver
\* while no sample of the driver in the tile was unobserved.
C27_Witness ==
    \E h \in Handlers :
        /\ requests[h].pc = "done"
        /\ ObservedWithDriver(requests[h])
        /\ requests[h].body.path = <<>>
        /\ requests[h].hits = 1
        /\ RecentUnobserved(requests[h]) = {}
        /\ MissOf(db.drivers, "d", requests[h].coverageGeohash) = 0
        /\ HitOf(db.drivers, "d", requests[h].coverageGeohash) = 1
        /\ writers.started = 2


-----------------------------------------------------------------------------
(* The entries of the lookup                                                 *)

\* C28: every entry of the lookup has at least one candidate, every candidate
\* has the key of the entry as its hash, bestMatch is not null and is the key,
\* so resolvePrefix returns the key whatever the order of the candidates, and
\* disambiguatePath replaces every prefix the lookup knows by its uppercase form
\* and leaves the others as they are.
C28_BestMatchIsKey ==
    /\ LookupBuilt =>
          \A prefix \in DOMAIN lookup :
              /\ Len(lookup[prefix].candidates) >= 1
              /\ \A i \in 1..Len(lookup[prefix].candidates) :
                    lookup[prefix].candidates[i].hash = prefix
              /\ lookup[prefix].bestMatch # JsNull
              /\ lookup[prefix].bestMatch = prefix
              /\ resolvePrefix(lookup, prefix).hash = prefix
              /\ resolvePrefix(lookup, ToLowerCase(prefix)).hash = prefix
    /\ PathsResolved =>
          \A k \in 1..Len(samples) :
              resolvedPaths[k] =
                  [i \in 1..Len(RawPath(k)) |->
                      IF ToUpperCase(RawPath(k)[i]) \in DOMAIN lookup
                      THEN ToUpperCase(RawPath(k)[i])
                      ELSE RawPath(k)[i]]

\* A response built with an entry of two candidates, and a path in which a
\* known prefix has become uppercase and an unknown one is as it was.
C28_Witness ==
    /\ pc = "done"
    /\ \E prefix \in DOMAIN lookup : Len(lookup[prefix].candidates) >= 2
    /\ \E k \in 1..Len(samples) :
          \E i, j \in 1..Len(RawPath(k)) :
              /\ ToUpperCase(RawPath(k)[i]) \in DOMAIN lookup
              /\ resolvedPaths[k][i] = ToUpperCase(RawPath(k)[i])
              /\ resolvedPaths[k][i] # RawPath(k)[i]
              /\ ToUpperCase(RawPath(k)[j]) \notin DOMAIN lookup
              /\ resolvedPaths[k][j] = RawPath(k)[j]


\* The two candidates have the same statistics of the samples.
SameSampleStatistics(a, b) ==
    /\ a.positionCounts = b.positionCounts
    /\ a.totalAppearances = b.totalAppearances
    /\ a.adjacentPrefixCounts = b.adjacentPrefixCounts
    /\ a.totalAdjacentObservations = b.totalAdjacentObservations
    /\ a.positionScore = b.positionScore
    /\ a.cooccurrenceScore = b.cooccurrenceScore

\* (best - second) / best capped at 1.0, without the bonus
ScoreGap(candidates) ==
    IF candidates[1].combinedScore > 0
    THEN Min(Scale, ((candidates[1].combinedScore - candidates[2].combinedScore) * Scale)
                        \div candidates[1].combinedScore)
    ELSE 0

\* C29: in a lookup that buildPrefixLookup returns, the candidates of one
\* prefix have equal positionCounts, totalAppearances, adjacentPrefixCounts,
\* totalAdjacentObservations, positionScore and cooccurrenceScore; the first
\* never has more than twice the appearances of the second, the confidence of
\* an entry of several candidates is the score gap without the 0.2 bonus, and
\* of two candidates the one with the recency score and the source-geographic
\* boost not below the other's has the combinedScore not below the other's.
C29_SharedStatistics ==
    call.fn = "buildPrefixLookup" =>
        \A key \in DOMAIN call.result :
            LET candidates == call.result[key].candidates
            IN /\ \A i, j \in 1..Len(candidates) :
                     /\ SameSampleStatistics(candidates[i], candidates[j])
                     /\ (/\ candidates[i].recencyScore >= candidates[j].recencyScore
                         /\ ExpectedBoost(candidates[i]) >= ExpectedBoost(candidates[j]))
                           => candidates[i].combinedScore >= candidates[j].combinedScore
               /\ Len(candidates) > 1 =>
                     /\ ~(candidates[1].totalAppearances > 2 * candidates[2].totalAppearances)
                     /\ call.result[key].confidence = ScoreGap(candidates)

\* A lookup with two candidates of one prefix that was heard in the samples
\* next to another prefix, the candidates having different scores.
C29_Witness ==
    /\ call.fn = "buildPrefixLookup"
    /\ \E key \in DOMAIN call.result :
          LET candidates == call.result[key].candidates
          IN /\ Len(candidates) > 1
             /\ candidates[1].totalAppearances > 2
             /\ candidates[1].totalAdjacentObservations > 0
             /\ candidates[1].combinedScore > candidates[2].combinedScore
             /\ candidates[1].recencyScore > candidates[2].recencyScore

=============================================================================
